---- MODULE Spec2Model ----
(***************************************************************************)
(* Entitlement / assignment subsystem of ai-team-server                    *)
(* (src/src/admin/admin.service.ts, AdminService).                         *)
(*                                                                         *)
(* The relational store is modelled as four tables: assignedAgent          *)
(* (DirectAssignment rows), assignedGroup (GroupAssignment rows),          *)
(* agentGroup and agentGroupItem.  Every AdminService method is one action *)
(* that runs to completion and leaves its response in `resp`; the next     *)
(* request starts once the response has been delivered (reply).            *)
(*   Spec        the Direct Assignment Engine, one request at a time, and  *)
(*               the clock                                                 *)
(*   SpecPatch   repeated single-agent assigns with every combination of   *)
(*               window fields                                             *)
(*   SpecGroups  both engines and the group store, one request at a time   *)
(*   SpecRace    single-agent assigns split at their two store round trips *)
(*   SpecExpiry  the pure expiry resolution on its own                     *)
(* and further specifications, each introduced where it is defined, for    *)
(* the group store, the Selection Mirror (UserAgentSelectionService, the   *)
(* column User.selectedAgents) and the requests that overlap.              *)
(*                                                                         *)
(* Time is counted in ticks of the clock `now`; one calendar day is        *)
(* DayTicks ticks.  A row's createdAt is its id: ids grow with every       *)
(* create, so "newest first" is "largest id first".  The updatedAt column  *)
(* is not modelled.                                                        *)
(***************************************************************************)
EXTENDS Integers, Sequences, FiniteSets, TLC

VARIABLES
    assignedAgent,   \* table AssignedAgent: sequence of rows, in creation order
    assignedGroup,   \* table AssignedGroup: sequence of rows, in creation order
    agentGroup,      \* table AgentGroup: sequence of [id, name, isActive], in creation order
    agentGroupItem,  \* table AgentGroupItem: sequence of [groupId, agentName], in creation order
    now,             \* the clock read by new Date() and by the DB default now()
    resp,            \* what the last request returned or threw
    prev,            \* SpecPatch: the request handled before the last one
    req,             \* SpecRace: the in-flight single-agent assign requests
    cx,              \* SpecExpiry: one call of computeExpiry, input and output
    selectedAgents   \* column User.selectedAgents: user id -> sequence of agent names

vars == <<assignedAgent, assignedGroup, agentGroup, agentGroupItem, now, resp, prev, req, cx,
          selectedAgents>>

\* the variables AdminService does not write
aux == <<prev, req, cx, selectedAgents>>

store == <<assignedAgent, assignedGroup, agentGroup, agentGroupItem>>

(***************************************************************************)
(* Bounds of the model                                                     *)
(***************************************************************************)
MaxTime == 2            \* the clock stops ticking here
MaxAssignedAgents == 2  \* no create on AssignedAgent beyond this many rows
MaxAssignedGroups == 2  \* no create on AssignedGroup beyond this many rows
MaxExpiry == 1          \* no extend-by-days beyond this expiry

(***************************************************************************)
(* Values                                                                  *)
(***************************************************************************)
\* JavaScript's undefined and null, kept apart from every date (>= 0) and
\* from every day count the model uses (> Null).
Undefined == -99
Null == -98

\* One calendar day in clock ticks (Date.setDate(getDate() + 1)).
DayTicks == 1

\* A date given as an ISO string is the instant plus StringTag; a Date
\* object is the instant itself.
StringTag == 100

AgentNames == {"JIM", "ALEX"}

\* AgentGroup.name values a request may carry
GroupNames == {"G1", "G2"}

\* AgentGroup.id values (cuid()), in the order the store hands them out
GroupIds == <<"g1", "g2">>

\* SpecRace: the callers whose requests may overlap
Clients == {1, 2}

\* The User table: email -> id.  Users are created elsewhere.
UserEmails == {"a@x.com", "b@x.com"}

UserIdOf(email) == IF email = "a@x.com" THEN "u1" ELSE "u2"

\* Emails a read may carry: a known one, the same padded with blanks, an
\* unknown one and the empty one.
Emails == {"a@x.com", " a@x.com ", "nobody@x.com", ""}

\* String.prototype.trim on the emails above and on the group names of
\* NameInputs
trim(s) ==
    IF s = " a@x.com " THEN "a@x.com"
    ELSE IF s = " G1 " THEN "G1"
    ELSE IF s = " " THEN ""
    ELSE s

Nullish(v) == v = Undefined \/ v = Null

\* a ?? b
Coalesce(a, b) == IF Nullish(a) THEN b ELSE a

IsBoolean(v) == v \in {"true", "false"}

Range(seq) == {seq[k] : k \in 1..Len(seq)}

(***************************************************************************)
(* helpers of AdminService                                                 *)
(***************************************************************************)
coerceDate(v) ==
    IF v = Undefined THEN Undefined
    ELSE IF v = Null THEN Null
    ELSE IF v >= StringTag THEN v - StringTag   \* new Date(v)
    ELSE v                                      \* v instanceof Date

\* Date.setDate(getDate() + days)
AddDays(base, days) == base + days * DayTicks

computeExpiry_IgnoresExplicit(startsAt, expiresAt, durationDays, clock) ==
    LET s == Coalesce(coerceDate(startsAt), Undefined)
        e == coerceDate(expiresAt)
    IN  IF ~Nullish(durationDays) /\ durationDays > 0
        THEN [startsAt |-> s, expiresAt |-> AddDays(Coalesce(s, clock), durationDays)]
        ELSE [startsAt |-> s, expiresAt |-> e]

computeExpiry(startsAt, expiresAt, durationDays, clock) ==
    LET s == Coalesce(coerceDate(startsAt), Undefined)
        e == coerceDate(expiresAt)
    IN  IF e # Undefined
        THEN [startsAt |-> s, expiresAt |-> e]
        ELSE IF ~Nullish(durationDays) /\ durationDays # 0 /\ durationDays > 0
        THEN LET base == Coalesce(s, clock)
             IN  [startsAt |-> s, expiresAt |-> AddDays(base, durationDays)]
        ELSE [startsAt |-> s, expiresAt |-> Undefined]

getUserByEmail(email) ==
    IF email \in UserEmails THEN UserIdOf(email) ELSE "NotFound"

(***************************************************************************)
(* Store primitives on AssignedAgent / AssignedGroup rows                  *)
(***************************************************************************)
patchRow_NullKeeps(existing, startsAt, expiresAt, durationDays, isActive) ==
    [existing EXCEPT
        !.startsAt = Coalesce(startsAt, existing.startsAt),
        !.expiresAt = Coalesce(expiresAt, existing.expiresAt),
        !.durationDays = Coalesce(durationDays, existing.durationDays),
        !.isActive = IF IsBoolean(isActive) THEN isActive = "true" ELSE existing.isActive]

\* data of prisma.assigned*.update on the active row: only what was supplied
patchRow(existing, startsAt, expiresAt, durationDays, isActive) ==
    [existing EXCEPT
        !.startsAt = Coalesce(startsAt, existing.startsAt),
        !.expiresAt = IF expiresAt # Undefined THEN expiresAt ELSE existing.expiresAt,
        !.durationDays = Coalesce(durationDays, existing.durationDays),
        !.isActive = IF IsBoolean(isActive) THEN isActive = "true" ELSE existing.isActive]

\* data of prisma.assigned*.create, with the column defaults
\* (startsAt now(), expiresAt NULL, durationDays NULL)
newRow(id, userId, startsAt, expiresAt, durationDays, isActive, clock) ==
    [id |-> id,
     userId |-> userId,
     startsAt |-> Coalesce(startsAt, clock),
     expiresAt |-> Coalesce(expiresAt, Null),
     durationDays |-> Coalesce(durationDays, Null),
     isActive |-> IF IsBoolean(isActive) THEN isActive = "true" ELSE TRUE]

NextId(rows) == IF rows = <<>> THEN 1 ELSE rows[Len(rows)].id + 1

findActiveAssignment_Blind(rows, userId, agentName) == {}

\* prisma.assignedAgent.findFirst({ where: { userId, agentName, isActive: true } }):
\* the positions of the rows it may return (no orderBy: any match)
findActiveAssignment(rows, userId, agentName) ==
    {i \in 1..Len(rows) :
        rows[i].userId = userId /\ rows[i].agentName = agentName /\ rows[i].isActive}

(***************************************************************************)
(* Direct Assignment Engine                                                *)
(***************************************************************************)
upsertActiveAssignment_AlwaysCreate(rows, p, clock) ==
    {Append(rows, newRow(NextId(rows), p.userId, p.startsAt, p.expiresAt,
                         p.durationDays, p.isActive, clock)
                  @@ [agentName |-> p.agentName])}

\* the tables upsertActiveAssignment may leave
upsertActiveAssignment(rows, p, clock) ==
    LET existingActive == findActiveAssignment(rows, p.userId, p.agentName)
    IN  IF existingActive # {}
        THEN {[rows EXCEPT ![i] = patchRow(rows[i], p.startsAt, p.expiresAt,
                                           p.durationDays, p.isActive)] :
                i \in existingActive}
        ELSE {Append(rows, newRow(NextId(rows), p.userId, p.startsAt, p.expiresAt,
                                  p.durationDays, p.isActive, clock)
                           @@ [agentName |-> p.agentName])}

\* prisma.$transaction(fn): the table a transaction leaves, given the table
\* before it and an outcome [ok, rows] of its body (rows: the table as the
\* body last saw it)
transaction_NoRollback(before, outcome) == outcome.rows

transaction(before, outcome) == IF outcome.ok THEN outcome.rows ELSE before

\* The loop of assignAgentsByEmail inside the transaction: the outcomes of
\* upserting agentNames[k..] on `rows`; the statement for agentNames[failAt]
\* throws (failAt = 0: none does).
RECURSIVE assignAgentsLoop(_, _, _, _, _, _, _)
assignAgentsLoop(rows, userId, agentNames, k, w, clock, failAt) ==
    IF k > Len(agentNames) THEN {[ok |-> TRUE, rows |-> rows]}
    ELSE IF k = failAt THEN {[ok |-> FALSE, rows |-> rows]}
    ELSE LET existingActive == findActiveAssignment(rows, userId, agentNames[k])
             after ==
                IF existingActive # {}
                THEN {[rows EXCEPT ![i] = patchRow(rows[i], w.startsAt, w.expiresAt,
                                                   w.durationDays, w.isActive)] :
                        i \in existingActive}
                ELSE {Append(rows, newRow(NextId(rows), userId, w.startsAt, w.expiresAt,
                                          w.durationDays, w.isActive, clock)
                                   @@ [agentName |-> agentNames[k]])}
         IN  UNION {assignAgentsLoop(t, userId, agentNames, k + 1, w, clock, failAt) :
                        t \in after}

\* rows newest first (orderBy: { createdAt: 'desc' })
RECURSIVE Reverse(_)
Reverse(s) == IF s = <<>> THEN <<>> ELSE Append(Reverse(Tail(s)), Head(s))

RECURSIVE Filter(_, _)
Filter(s, keep) ==
    IF s = <<>> THEN <<>>
    ELSE IF Head(s).id \in keep THEN <<Head(s)>> \o Filter(Tail(s), keep)
    ELSE Filter(Tail(s), keep)

AgentNameOf(rows) == [i \in 1..Len(rows) |-> rows[i].agentName]

listAssignments_DropsExpired(rows, userId, activeOnly) ==
    Reverse(Filter(rows,
        {rows[i].id : i \in {j \in 1..Len(rows) :
            /\ rows[j].userId = userId
            /\ activeOnly =>
                  (rows[j].isActive /\ (rows[j].expiresAt = Null \/ rows[j].expiresAt > now))}}))

\* what listAssignmentsByEmail returns for a known user
listAssignments(rows, userId, activeOnly) ==
    Reverse(Filter(rows,
        {rows[i].id : i \in {j \in 1..Len(rows) :
            rows[j].userId = userId /\ (activeOnly => rows[j].isActive)}}))

getSelectedAgents_IgnoresExpiry(rows, userId, clock) ==
    AgentNameOf(Reverse(Filter(rows,
        {rows[i].id : i \in {j \in 1..Len(rows) :
            rows[j].userId = userId /\ rows[j].isActive}})))

\* what getSelectedAgentsByEmail returns for a known user at time `clock`
getSelectedAgents(rows, userId, clock) ==
    AgentNameOf(Reverse(Filter(rows,
        {rows[i].id : i \in {j \in 1..Len(rows) :
            /\ rows[j].userId = userId
            /\ rows[j].isActive
            /\ (rows[j].expiresAt = Null \/ rows[j].expiresAt > clock)}})))

(***************************************************************************)
(* Requests and responses                                                  *)
(***************************************************************************)
NoOpts == [startsAt |-> Undefined, expiresAt |-> Undefined,
           durationDays |-> Undefined, isActive |-> "undefined"]

\* every combination of BaseAssignOpts fields: absent or supplied start,
\* absent / null / dated expiry, absent / zero / positive duration, absent or
\* supplied flag
OptsAll == [startsAt : {Undefined, 1},
            expiresAt : {Undefined, Null, 2},
            durationDays : {Undefined, 0, 1},
            isActive : {"undefined", "true", "false"}]

\* the windows: no expiry, one day, a fixed date
OptsWindow ==
    {NoOpts, [NoOpts EXCEPT !.durationDays = 1], [NoOpts EXCEPT !.expiresAt = 2]}

\* the agentNames arrays a bulk request may carry
AgentLists ==
    {<<>>} \cup {<<a>> : a \in AgentNames} \cup {<<a, b>> : a, b \in AgentNames}

\* resp: the request handled last (op, args), how it ended (status), what it
\* returned (ret) and, for a read that looks at the clock, when it ran (at)
Response(op, status, args, ret, at) ==
    [op |-> op, status |-> status, args |-> args, ret |-> ret, at |-> at]

NoResponse == Response("none", "ok", <<>>, <<>>, 0)

Idle == resp = NoResponse

\* the window and flags the upserts of one request work with
Window(opts, clock) ==
    LET c == computeExpiry(opts.startsAt, opts.expiresAt,
                           Coalesce(opts.durationDays, Undefined), clock)
    IN  [startsAt |-> c.startsAt, expiresAt |-> c.expiresAt,
         durationDays |-> opts.durationDays, isActive |-> opts.isActive]

(***************************************************************************)
(* Handlers of the Direct Assignment Engine                                *)
(***************************************************************************)
assignAgentByEmail(email, agentName, opts) ==
    LET re(status) ==
            Response("assign", status,
                     [email |-> email, agentName |-> agentName, opts |-> opts], <<>>, 0)
        user == getUserByEmail(trim(email))
        w == Window(opts, now)
    IN  /\ UNCHANGED <<assignedGroup, agentGroup, agentGroupItem, now, aux>>
        /\ IF trim(email) = ""
           THEN resp' = re("BadRequest") /\ UNCHANGED assignedAgent
           ELSE IF user = "NotFound"
           THEN resp' = re("NotFound") /\ UNCHANGED assignedAgent
           ELSE \E t \in upsertActiveAssignment(assignedAgent,
                        [userId |-> user, agentName |-> agentName,
                         startsAt |-> w.startsAt, expiresAt |-> w.expiresAt,
                         durationDays |-> Coalesce(opts.durationDays, Null),
                         isActive |-> opts.isActive], now) :
                    /\ Len(t) <= MaxAssignedAgents
                    /\ assignedAgent' = t
                    /\ resp' = re("ok")

\* the transaction of assignAgentsByEmail for a resolved user: the outcome
\* [ok, rows] it may have (rows: the table it leaves)
assignAgentsTx(rows, userId, agentNames, opts, clock, failAt) ==
    {[ok |-> o.ok, rows |-> transaction(rows, o), seen |-> o.rows] :
        o \in assignAgentsLoop(rows, userId, agentNames, 1, Window(opts, clock),
                               clock, failAt)}

assignAgentsByEmail(email, agentNames, opts, failAt) ==
    LET re(status) ==
            Response("assignBulk", status,
                     [email |-> email, agentNames |-> agentNames, opts |-> opts,
                      failAt |-> failAt], <<>>, 0)
        user == getUserByEmail(trim(email))
    IN  /\ UNCHANGED <<assignedGroup, agentGroup, agentGroupItem, now, aux>>
        /\ IF trim(email) = "" \/ Len(agentNames) = 0
           THEN resp' = re("BadRequest") /\ UNCHANGED assignedAgent
           ELSE IF user = "NotFound"
           THEN resp' = re("NotFound") /\ UNCHANGED assignedAgent
           ELSE \E o \in assignAgentsTx(assignedAgent, user, agentNames, opts, now, failAt) :
                    /\ Len(o.seen) <= MaxAssignedAgents
                    /\ assignedAgent' = o.rows
                    /\ resp' = re(IF o.ok THEN "ok" ELSE "StoreError")

deactivateAgentByEmail_NoOpWhenMissing(email, agentName) ==
    LET re(status) ==
            Response("deactivate", status, [email |-> email, agentName |-> agentName],
                     <<>>, 0)
        user == getUserByEmail(trim(email))
        existingActive == findActiveAssignment(assignedAgent, user, agentName)
    IN  /\ UNCHANGED <<assignedGroup, agentGroup, agentGroupItem, now, aux>>
        /\ IF user = "NotFound"
           THEN resp' = re("NotFound") /\ UNCHANGED assignedAgent
           ELSE IF existingActive = {}
           THEN resp' = re("ok") /\ UNCHANGED assignedAgent
           ELSE \E i \in existingActive :
                    /\ assignedAgent' = [assignedAgent EXCEPT ![i].isActive = FALSE]
                    /\ resp' = re("ok")

deactivateAgentByEmail(email, agentName) ==
    LET re(status) ==
            Response("deactivate", status, [email |-> email, agentName |-> agentName],
                     <<>>, 0)
        user == getUserByEmail(trim(email))
        existingActive == findActiveAssignment(assignedAgent, user, agentName)
    IN  /\ UNCHANGED <<assignedGroup, agentGroup, agentGroupItem, now, aux>>
        /\ IF user = "NotFound" \/ existingActive = {}
           THEN resp' = re("NotFound") /\ UNCHANGED assignedAgent
           ELSE \E i \in existingActive :
                    /\ assignedAgent' = [assignedAgent EXCEPT ![i].isActive = FALSE]
                    /\ resp' = re("ok")

listAssignmentsByEmail(email, activeOnly) ==
    LET re(status, ret) ==
            Response("list", status, [email |-> email, activeOnly |-> activeOnly], ret, 0)
        user == getUserByEmail(trim(email))
    IN  /\ UNCHANGED <<store, now, aux>>
        /\ IF user = "NotFound"
           THEN resp' = re("NotFound", <<>>)
           ELSE resp' = re("ok", listAssignments(assignedAgent, user, activeOnly))

getSelectedAgentsByEmail(email) ==
    LET re(status, ret) == Response("getSelected", status, [email |-> email], ret, now)
        user == getUserByEmail(trim(email))
    IN  /\ UNCHANGED <<store, now, aux>>
        /\ IF trim(email) = ""
           THEN resp' = re("BadRequest", <<>>)
           ELSE IF user = "NotFound"
           THEN resp' = re("NotFound", <<>>)
           ELSE resp' = re("ok", getSelectedAgents(assignedAgent, user, now))

(***************************************************************************)
(* Agent Group Store                                                       *)
(***************************************************************************)
\* Array.from(new Set(out ++ xs)): first occurrences, in order
RECURSIVE DedupeInto(_, _)
DedupeInto(out, xs) ==
    IF xs = <<>> THEN out
    ELSE IF Head(xs) \in Range(out) THEN DedupeInto(out, Tail(xs))
    ELSE DedupeInto(Append(out, Head(xs)), Tail(xs))

RECURSIVE createMany_NoSkip(_, _, _)
createMany_NoSkip(items, groupId, agentNames) ==
    IF agentNames = <<>> THEN items
    ELSE createMany_NoSkip(Append(items, [groupId |-> groupId,
                                          agentName |-> Head(agentNames)]),
                           groupId, Tail(agentNames))

\* agentGroupItem.createMany({ data, skipDuplicates: true }) under
\* @@unique([groupId, agentName])
RECURSIVE createMany(_, _, _)
createMany(items, groupId, agentNames) ==
    IF agentNames = <<>> THEN items
    ELSE LET it == [groupId |-> groupId, agentName |-> Head(agentNames)]
         IN  createMany(IF it \in Range(items) THEN items ELSE Append(items, it),
                        groupId, Tail(agentNames))

findGroupById(groups, id) == {i \in 1..Len(groups) : groups[i].id = id}

findGroupByName(groups, name) == {i \in 1..Len(groups) : groups[i].name = name}

createAgentGroup(name) ==
    LET re(status) == Response("createGroup", status, [name |-> name], <<>>, 0)
    IN  /\ UNCHANGED <<assignedAgent, assignedGroup, agentGroupItem, now, aux>>
        /\ IF findGroupByName(agentGroup, trim(name)) # {}
           THEN resp' = re("Conflict") /\ UNCHANGED agentGroup
           ELSE /\ Len(agentGroup) < Len(GroupIds)
                /\ agentGroup' = Append(agentGroup,
                                        [id |-> GroupIds[Len(agentGroup) + 1],
                                         name |-> trim(name), isActive |-> TRUE])
                /\ resp' = re("ok")

addAgentsToGroup(groupId, agentNames) ==
    LET re(status) ==
            Response("addAgents", status, [groupId |-> groupId, agentNames |-> agentNames],
                     <<>>, 0)
        unique == DedupeInto(<<>>, agentNames)
    IN  /\ UNCHANGED <<assignedAgent, assignedGroup, agentGroup, now, aux>>
        /\ IF findGroupById(agentGroup, groupId) = {}
           THEN resp' = re("NotFound") /\ UNCHANGED agentGroupItem
           ELSE IF Len(unique) = 0
           THEN resp' = re("ok") /\ UNCHANGED agentGroupItem
           ELSE /\ agentGroupItem' = createMany(agentGroupItem, groupId, unique)
                /\ resp' = re("ok")

\* agentGroupItem.deleteMany({ where: { groupId, agentName: { in: agentNames } } })
deleteManyIn(items, groupId, agentNames) ==
    SelectSeq(items, LAMBDA it : ~(it.groupId = groupId /\ it.agentName \in Range(agentNames)))

removeAgentsFromGroup(groupId, agentNames) ==
    LET re(status) ==
            Response("removeAgents", status,
                     [groupId |-> groupId, agentNames |-> agentNames], <<>>, 0)
    IN  /\ UNCHANGED <<assignedAgent, assignedGroup, agentGroup, now, aux>>
        /\ IF findGroupById(agentGroup, groupId) = {}
           THEN resp' = re("NotFound") /\ UNCHANGED agentGroupItem
           ELSE IF Len(agentNames) = 0
           THEN resp' = re("ok") /\ UNCHANGED agentGroupItem
           ELSE /\ agentGroupItem' = deleteManyIn(agentGroupItem, groupId, agentNames)
                /\ resp' = re("ok")

deleteManyNotIn_Nothing(items, groupId, next) == items

\* tx.agentGroupItem.deleteMany({ where: { groupId, ...(next.length ?
\* { agentName: { notIn: next } } : {}) } })
deleteManyNotIn(items, groupId, next) ==
    IF Len(next) # 0
    THEN SelectSeq(items, LAMBDA it : ~(it.groupId = groupId /\ it.agentName \notin Range(next)))
    ELSE SelectSeq(items, LAMBDA it : it.groupId # groupId)

\* the body of the transaction of replaceGroupAgents: its outcome [ok, rows];
\* statement failAt throws (1: deleteMany, 2: createMany, 0: none)
replaceTx(items, groupId, next, failAt) ==
    IF failAt = 1 THEN [ok |-> FALSE, rows |-> items]
    ELSE LET deleted == deleteManyNotIn(items, groupId, next)
         IN  IF Len(next) = 0 THEN [ok |-> TRUE, rows |-> deleted]
             ELSE IF failAt = 2 THEN [ok |-> FALSE, rows |-> deleted]
             ELSE [ok |-> TRUE, rows |-> createMany(deleted, groupId, next)]

replaceGroupAgents(groupId, agentNames, failAt) ==
    LET re(status) ==
            Response("replaceAgents", status,
                     [groupId |-> groupId, agentNames |-> agentNames, failAt |-> failAt],
                     <<>>, 0)
        next == DedupeInto(<<>>, agentNames)
        o == replaceTx(agentGroupItem, groupId, next, failAt)
    IN  /\ UNCHANGED <<assignedAgent, assignedGroup, agentGroup, now, aux>>
        /\ IF findGroupById(agentGroup, groupId) = {}
           THEN resp' = re("NotFound") /\ UNCHANGED agentGroupItem
           ELSE /\ agentGroupItem' = transaction(agentGroupItem, o)
                /\ resp' = re(IF o.ok THEN "ok" ELSE "StoreError")

\* what listGroupAgents returns for an existing group: agents, oldest first
listGroupAgents(items, groupId) ==
    LET mine == SelectSeq(items, LAMBDA it : it.groupId = groupId)
    IN  [i \in 1..Len(mine) |-> mine[i].agentName]

\* the unique index on AgentGroup.name: the rows other than `self` (0: none)
\* that hold `name`
nameTaken(groups, name, self) ==
    {i \in 1..Len(groups) : i # self /\ groups[i].name = name}

updateAgentGroup_NoUnique(id, name, isActive) ==
    LET re(status) ==
            Response("updateGroup", status,
                     [id |-> id, name |-> name, isActive |-> isActive], <<>>, 0)
        hit == findGroupById(agentGroup, id)
    IN  /\ UNCHANGED <<assignedAgent, assignedGroup, agentGroupItem, now, aux>>
        /\ IF hit = {}
           THEN resp' = re("NotFound") /\ UNCHANGED agentGroup
           ELSE LET i == CHOOSE k \in hit : TRUE
                    g == agentGroup[i]
                IN  /\ agentGroup' =
                           [agentGroup EXCEPT ![i] =
                              [g EXCEPT !.name = IF name # "" THEN trim(name) ELSE g.name,
                                        !.isActive = IF IsBoolean(isActive)
                                                     THEN isActive = "true"
                                                     ELSE g.isActive]]
                    /\ resp' = re("ok")

\* name = "": the field is absent (or empty: equally falsy)
updateAgentGroup(id, name, isActive) ==
    LET re(status) ==
            Response("updateGroup", status,
                     [id |-> id, name |-> name, isActive |-> isActive], <<>>, 0)
        hit == findGroupById(agentGroup, id)
    IN  /\ UNCHANGED <<assignedAgent, assignedGroup, agentGroupItem, now, aux>>
        /\ IF hit = {}
           THEN resp' = re("NotFound") /\ UNCHANGED agentGroup            \* P2025
           ELSE LET i == CHOOSE k \in hit : TRUE
                    g == agentGroup[i]
                IN  IF name # "" /\ nameTaken(agentGroup, trim(name), i) # {}
                    THEN resp' = re("Conflict") /\ UNCHANGED agentGroup   \* P2002
                    ELSE /\ agentGroup' =
                                [agentGroup EXCEPT ![i] =
                                   [g EXCEPT !.name = IF name # "" THEN trim(name)
                                                      ELSE g.name,
                                             !.isActive = IF IsBoolean(isActive)
                                                          THEN isActive = "true"
                                                          ELSE g.isActive]]
                         /\ resp' = re("ok")

\* the transaction of createAgentGroupWithAgents with the checks in front of
\* it: how it ends and the two tables it leaves; statement failAt throws an
\* error other than P2002 (1: agentGroup.create, 2: createMany, 0: none)
createWithAgentsTx(groups, items, name, agentNames, failAt) ==
    LET keep(status) == [status |-> status, groups |-> groups, items |-> items, id |-> ""]
        id == IF Len(groups) < Len(GroupIds) THEN GroupIds[Len(groups) + 1] ELSE ""
        created == Append(groups, [id |-> id, name |-> trim(name), isActive |-> TRUE])
        unique == DedupeInto(<<>>, agentNames)
    IN  IF trim(name) = "" THEN keep("BadRequest")
        ELSE IF Len(agentNames) = 0 THEN keep("BadRequest")
        ELSE IF nameTaken(groups, trim(name), 0) # {} THEN keep("Conflict")
        ELSE IF failAt = 1 THEN keep("StoreError")
        ELSE IF failAt = 2
        THEN LET o == [ok |-> FALSE, rows |-> created]
             IN  [status |-> "StoreError", groups |-> transaction(groups, o),
                  items |-> items, id |-> ""]
        ELSE [status |-> "ok", groups |-> created,
              items |-> createMany(items, id, unique), id |-> id]

createAgentGroupWithAgents(name, agentNames, failAt) ==
    LET t == createWithAgentsTx(agentGroup, agentGroupItem, name, agentNames, failAt)
    IN  /\ UNCHANGED <<assignedAgent, assignedGroup, now, aux>>
        /\ t.status \in {"ok", "StoreError"} => Len(agentGroup) < Len(GroupIds)
        /\ agentGroup' = t.groups
        /\ agentGroupItem' = t.items
        /\ resp' = Response("createGroupWithAgents", t.status,
                            [name |-> name, agentNames |-> agentNames, failAt |-> failAt],
                            <<>>, 0)

(***************************************************************************)
(* Group Assignment Engine                                                 *)
(***************************************************************************)
\* GroupSelector; "" is an absent (or empty, equally falsy) field
NoSelector == [groupId |-> "", groupName |-> ""]

resolveGroupId(groups, sel) ==
    IF sel.groupId # ""
    THEN IF findGroupById(groups, sel.groupId) = {} THEN "NotFound" ELSE sel.groupId
    ELSE IF sel.groupName # ""
    THEN IF findGroupByName(groups, sel.groupName) = {} THEN "NotFound"
         ELSE groups[CHOOSE i \in findGroupByName(groups, sel.groupName) : TRUE].id
    ELSE "BadRequest"

getGroupAgentNames_FirstOnly(items, groupId) ==
    LET mine == SelectSeq(items, LAMBDA it : it.groupId = groupId)
    IN  IF mine = <<>> THEN <<>> ELSE <<mine[1].agentName>>

\* the members of a group, oldest first, deduplicated; <<>> is where the
\* code throws BadRequest
getGroupAgentNames(items, groupId) ==
    DedupeInto(<<>>, [i \in 1..Len(SelectSeq(items, LAMBDA it : it.groupId = groupId)) |->
                        SelectSeq(items, LAMBDA it : it.groupId = groupId)[i].agentName])

\* @@unique([userId, groupId, isActive]) on AssignedGroup
userId_groupId_isActive(rows) ==
    \A i, j \in 1..Len(rows) :
        (/\ rows[i].userId = rows[j].userId
         /\ rows[i].groupId = rows[j].groupId
         /\ rows[i].isActive = rows[j].isActive) => i = j

\* a write on AssignedGroup: refused with P2002, and not applied, when it
\* breaks the unique key
assignedGroupWrite(before, after) ==
    IF userId_groupId_isActive(after)
    THEN [ok |-> TRUE, rows |-> after]
    ELSE [ok |-> FALSE, rows |-> before]

findActiveGroupAssignment(rows, userId, groupId) ==
    {i \in 1..Len(rows) :
        rows[i].userId = userId /\ rows[i].groupId = groupId /\ rows[i].isActive}

\* findFirst({ where: { userId, groupId }, orderBy: { createdAt: 'desc' } })
findLatestGroupAssignment(rows, userId, groupId) ==
    LET mine == {i \in 1..Len(rows) : rows[i].userId = userId /\ rows[i].groupId = groupId}
    IN  {i \in mine : \A j \in mine : rows[j].id <= rows[i].id}

upsertActiveGroupAssignment_AlwaysCreate(rows, p, clock) ==
    {[ok |-> TRUE,
      rows |-> Append(rows, newRow(NextId(rows), p.userId, p.startsAt, p.expiresAt,
                                   p.durationDays, p.isActive, clock)
                            @@ [groupId |-> p.groupId])]}

\* the outcomes [ok, rows] upsertActiveGroupAssignment may have
upsertActiveGroupAssignment(rows, p, clock) ==
    LET existingActive == findActiveGroupAssignment(rows, p.userId, p.groupId)
    IN  IF existingActive # {}
        THEN {assignedGroupWrite(rows,
                [rows EXCEPT ![i] = patchRow(rows[i], p.startsAt, p.expiresAt,
                                             p.durationDays, p.isActive)]) :
                i \in existingActive}
        ELSE {assignedGroupWrite(rows,
                Append(rows, newRow(NextId(rows), p.userId, p.startsAt, p.expiresAt,
                                    p.durationDays, p.isActive, clock)
                             @@ [groupId |-> p.groupId]))}

\* the parameters the group upserts of one request are called with
GroupParams(userId, groupId, opts, clock) ==
    LET w == Window(opts, clock)
    IN  [userId |-> userId, groupId |-> groupId,
         startsAt |-> w.startsAt, expiresAt |-> w.expiresAt,
         durationDays |-> Coalesce(opts.durationDays, Null), isActive |-> opts.isActive]

materialize_Reconciles(groups, userId, agentNames, opts, failAt, done, failed) ==
    \E o \in assignAgentsTx(assignedAgent, userId, agentNames, opts, now, failAt) :
        /\ Len(o.seen) <= MaxAssignedAgents
        /\ assignedGroup' = groups
        /\ assignedAgent' =
              [k \in 1..Len(o.rows) |->
                  IF o.ok /\ o.rows[k].userId = userId
                     /\ o.rows[k].agentName \notin Range(agentNames)
                  THEN [o.rows[k] EXCEPT !.isActive = FALSE]
                  ELSE o.rows[k]]
        /\ resp' = IF o.ok THEN done ELSE failed

\* the materialization: the transaction over agentNames, after the group
\* rows have become `groups`; it answers `done`, or `failed` when a statement
\* throws
materialize(groups, userId, agentNames, opts, failAt, done, failed) ==
    \E o \in assignAgentsTx(assignedAgent, userId, agentNames, opts, now, failAt) :
        /\ Len(o.seen) <= MaxAssignedAgents
        /\ assignedGroup' = groups
        /\ assignedAgent' = o.rows
        /\ resp' = IF o.ok THEN done ELSE failed

assignAgentGroupByEmail(email, selector, opts, failAt) ==
    LET re(status) ==
            Response("assignGroup", status,
                     [email |-> email, selector |-> selector, opts |-> opts], <<>>, 0)
        user == getUserByEmail(trim(email))
        groupId == resolveGroupId(agentGroup, selector)
        agentNames == getGroupAgentNames(agentGroupItem, groupId)
    IN  /\ UNCHANGED <<agentGroup, agentGroupItem, now, aux>>
        /\ IF trim(email) = ""
           THEN resp' = re("BadRequest") /\ UNCHANGED <<assignedAgent, assignedGroup>>
           ELSE IF user = "NotFound"
           THEN resp' = re("NotFound") /\ UNCHANGED <<assignedAgent, assignedGroup>>
           ELSE IF groupId \in {"NotFound", "BadRequest"}
           THEN resp' = re(groupId) /\ UNCHANGED <<assignedAgent, assignedGroup>>
           ELSE IF agentNames = <<>>
           THEN resp' = re("BadRequest") /\ UNCHANGED <<assignedAgent, assignedGroup>>
           ELSE \E g \in upsertActiveGroupAssignment(assignedGroup,
                            GroupParams(user, groupId, opts, now), now) :
                    /\ Len(g.rows) <= MaxAssignedGroups
                    /\ IF ~g.ok
                       THEN /\ resp' = re("P2002")
                            /\ UNCHANGED <<assignedAgent, assignedGroup>>
                       ELSE materialize(g.rows, user, agentNames, opts, failAt,
                                        re("ok"), re("StoreError"))

\* The loop of assignAgentGroupsByEmail over selectors[k..]: the outcomes
\* [status, rows, merged] (rows: AssignedGroup as the loop leaves it)
RECURSIVE assignGroupsLoop(_, _, _, _, _, _)
assignGroupsLoop(rows, userId, selectors, k, opts, merged) ==
    IF k > Len(selectors) THEN {[status |-> "ok", rows |-> rows, merged |-> merged]}
    ELSE LET groupId == resolveGroupId(agentGroup, selectors[k])
             names == getGroupAgentNames(agentGroupItem, groupId)
         IN  IF groupId \in {"NotFound", "BadRequest"}
             THEN {[status |-> groupId, rows |-> rows, merged |-> merged]}
             ELSE UNION {
                    IF ~g.ok
                    THEN {[status |-> "P2002", rows |-> g.rows, merged |-> merged]}
                    ELSE IF names = <<>>
                    THEN {[status |-> "BadRequest", rows |-> g.rows, merged |-> merged]}
                    ELSE assignGroupsLoop(g.rows, userId, selectors, k + 1, opts,
                                          DedupeInto(merged, names)) :
                    g \in upsertActiveGroupAssignment(rows,
                            GroupParams(userId, groupId, opts, now), now)}

assignAgentGroupsByEmail(email, selectors, opts, failAt) ==
    LET re(status) ==
            Response("assignGroups", status,
                     [email |-> email, selectors |-> selectors, opts |-> opts], <<>>, 0)
        user == getUserByEmail(trim(email))
    IN  /\ UNCHANGED <<agentGroup, agentGroupItem, now, aux>>
        /\ IF trim(email) = "" \/ Len(selectors) = 0
           THEN resp' = re("BadRequest") /\ UNCHANGED <<assignedAgent, assignedGroup>>
           ELSE IF user = "NotFound"
           THEN resp' = re("NotFound") /\ UNCHANGED <<assignedAgent, assignedGroup>>
           ELSE \E l \in assignGroupsLoop(assignedGroup, user, selectors, 1, opts, <<>>) :
                    /\ Len(l.rows) <= MaxAssignedGroups
                    /\ IF l.status # "ok"
                       THEN /\ resp' = re(l.status)
                            /\ assignedGroup' = l.rows
                            /\ UNCHANGED assignedAgent
                       ELSE IF Len(l.merged) = 0
                       THEN /\ resp' = re("BadRequest")
                            /\ assignedGroup' = l.rows
                            /\ UNCHANGED assignedAgent
                       ELSE materialize(l.rows, user, l.merged, opts, failAt,
                                        re("ok"), re("StoreError"))

\* createAgentGroupWithAgents commits the group and its items; then the user
\* is looked up, the group row upserted, and assignAgentGroupByEmail upserts
\* it again and materializes (failAt: the statement of that transaction
\* that throws)
createGroupWithAgentsAndAssignByEmail(email, name, agentNames, opts, failAt) ==
    LET re(status) ==
            Response("createGroupAndAssign", status,
                     [email |-> email, name |-> name, agentNames |-> agentNames,
                      opts |-> opts], <<>>, 0)
        t == createWithAgentsTx(agentGroup, agentGroupItem, name, agentNames, 0)
        user == getUserByEmail(trim(email))
        names == getGroupAgentNames(t.items, t.id)
    IN  /\ UNCHANGED <<now, aux>>
        /\ IF trim(email) = ""
           THEN resp' = re("BadRequest") /\ UNCHANGED store
           ELSE IF t.status # "ok"
           THEN resp' = re(t.status) /\ UNCHANGED store
           ELSE /\ Len(agentGroup) < Len(GroupIds)
                /\ agentGroup' = t.groups
                /\ agentGroupItem' = t.items
                /\ IF user = "NotFound"
                   THEN resp' = re("NotFound") /\ UNCHANGED <<assignedAgent, assignedGroup>>
                   ELSE \E g \in upsertActiveGroupAssignment(assignedGroup,
                                    GroupParams(user, t.id, opts, now), now) :
                          /\ Len(g.rows) <= MaxAssignedGroups
                          /\ IF ~g.ok
                             THEN /\ resp' = re("P2002")
                                  /\ UNCHANGED <<assignedAgent, assignedGroup>>
                             ELSE \E h \in upsertActiveGroupAssignment(g.rows,
                                              GroupParams(user, t.id, opts, now), now) :
                                    IF ~h.ok
                                    THEN /\ resp' = re("P2002")
                                         /\ assignedGroup' = g.rows
                                         /\ UNCHANGED assignedAgent
                                    ELSE materialize(h.rows, user, names, opts, failAt,
                                                     re("ok"), re("StoreError"))

assignGroupToUserByEmail(email, selector, opts, alsoAssignAgents, failAt) ==
    LET re(status) ==
            Response("assignGroupToUser", status,
                     [email |-> email, selector |-> selector, opts |-> opts,
                      alsoAssignAgents |-> alsoAssignAgents], <<>>, 0)
        user == getUserByEmail(trim(email))
        groupId == resolveGroupId(agentGroup, selector)
        agentNames == getGroupAgentNames(agentGroupItem, groupId)
    IN  /\ UNCHANGED <<agentGroup, agentGroupItem, now, aux>>
        /\ IF trim(email) = ""
           THEN resp' = re("BadRequest") /\ UNCHANGED <<assignedAgent, assignedGroup>>
           ELSE IF user = "NotFound"
           THEN resp' = re("NotFound") /\ UNCHANGED <<assignedAgent, assignedGroup>>
           ELSE IF groupId \in {"NotFound", "BadRequest"}
           THEN resp' = re(groupId) /\ UNCHANGED <<assignedAgent, assignedGroup>>
           ELSE \E g \in upsertActiveGroupAssignment(assignedGroup,
                            GroupParams(user, groupId, opts, now), now) :
                    /\ Len(g.rows) <= MaxAssignedGroups
                    /\ IF ~g.ok
                       THEN /\ resp' = re("P2002")
                            /\ UNCHANGED <<assignedAgent, assignedGroup>>
                       ELSE IF ~alsoAssignAgents
                       THEN /\ resp' = re("ok")
                            /\ assignedGroup' = g.rows
                            /\ UNCHANGED assignedAgent
                       ELSE IF agentNames = <<>>
                       THEN /\ resp' = re("BadRequest")
                            /\ assignedGroup' = g.rows
                            /\ UNCHANGED assignedAgent
                       ELSE materialize(g.rows, user, agentNames, opts, failAt,
                                        re("ok"), re("StoreError"))

\* an update of one AssignedGroup row found by a handler: `rows` is what the
\* update would leave; it answers `done`, or `refused` on P2002
updateGroupAssignment(rows, done, refused) ==
    LET g == assignedGroupWrite(assignedGroup, rows)
    IN  /\ assignedGroup' = g.rows
        /\ resp' = IF g.ok THEN done ELSE refused

deactivateGroupByEmail_Cascades(email, selector) ==
    LET re(status) ==
            Response("deactivateGroup", status, [email |-> email, selector |-> selector],
                     <<>>, 0)
        user == getUserByEmail(trim(email))
        groupId == resolveGroupId(agentGroup, selector)
        existing == findActiveGroupAssignment(assignedGroup, user, groupId)
    IN  /\ UNCHANGED <<agentGroup, agentGroupItem, now, aux>>
        /\ IF user = "NotFound" \/ groupId \in {"NotFound", "BadRequest"} \/ existing = {}
           THEN resp' = re("NotFound") /\ UNCHANGED <<assignedAgent, assignedGroup>>
           ELSE /\ assignedAgent' =
                      [k \in 1..Len(assignedAgent) |->
                          IF assignedAgent[k].userId = user
                             /\ assignedAgent[k].agentName
                                    \in Range(getGroupAgentNames(agentGroupItem, groupId))
                          THEN [assignedAgent[k] EXCEPT !.isActive = FALSE]
                          ELSE assignedAgent[k]]
                /\ \E i \in existing :
                      updateGroupAssignment([assignedGroup EXCEPT ![i].isActive = FALSE],
                                            re("ok"), re("P2002"))

deactivateGroupByEmail(email, selector) ==
    LET re(status) ==
            Response("deactivateGroup", status, [email |-> email, selector |-> selector],
                     <<>>, 0)
        user == getUserByEmail(trim(email))
        groupId == resolveGroupId(agentGroup, selector)
        existing == findActiveGroupAssignment(assignedGroup, user, groupId)
    IN  /\ UNCHANGED <<assignedAgent, agentGroup, agentGroupItem, now, aux>>
        /\ IF user = "NotFound"
           THEN resp' = re("NotFound") /\ UNCHANGED assignedGroup
           ELSE IF groupId \in {"NotFound", "BadRequest"}
           THEN resp' = re(groupId) /\ UNCHANGED assignedGroup
           ELSE IF existing = {}
           THEN resp' = re("NotFound") /\ UNCHANGED assignedGroup
           ELSE \E i \in existing :
                    updateGroupAssignment([assignedGroup EXCEPT ![i].isActive = FALSE],
                                          re("ok"), re("P2002"))

updateMyGroupAssignmentByEmail(email, selector, updates) ==
    LET re(status) ==
            Response("updateMy", status,
                     [email |-> email, selector |-> selector, updates |-> updates], <<>>, 0)
        user == getUserByEmail(trim(email))
        groupId == resolveGroupId(agentGroup, selector)
        existing == findLatestGroupAssignment(assignedGroup, user, groupId)
        c == computeExpiry(updates.startsAt, updates.expiresAt,
                           Coalesce(updates.durationDays, Undefined), now)
    IN  /\ UNCHANGED <<assignedAgent, agentGroup, agentGroupItem, now, aux>>
        /\ IF trim(email) = ""
           THEN resp' = re("BadRequest") /\ UNCHANGED assignedGroup
           ELSE IF user = "NotFound"
           THEN resp' = re("NotFound") /\ UNCHANGED assignedGroup
           ELSE IF groupId \in {"NotFound", "BadRequest"}
           THEN resp' = re(groupId) /\ UNCHANGED assignedGroup
           ELSE IF existing = {}
           THEN resp' = re("NotFound") /\ UNCHANGED assignedGroup
           ELSE \E i \in existing :
                    updateGroupAssignment(
                        [assignedGroup EXCEPT ![i] =
                            [@ EXCEPT
                                !.startsAt = IF c.startsAt # Undefined THEN c.startsAt ELSE @,
                                !.expiresAt = IF c.expiresAt # Undefined THEN c.expiresAt ELSE @,
                                !.durationDays = IF updates.durationDays # Undefined
                                                 THEN updates.durationDays ELSE @,
                                !.isActive = IF IsBoolean(updates.isActive)
                                             THEN updates.isActive = "true" ELSE @]],
                        re("ok"), re("P2002"))

\* a number with a fractional part (1.5, say), kept apart from every day
\* count the model uses
Fraction == -97

\* Number.isInteger
IsInteger(v) == v \notin {Undefined, Null, Fraction}

\* the bound of the model on extend-by-days: no expiry before the clock's
\* start or beyond MaxExpiry, but for one step of the full 3650 days from an
\* expiry within the bound
ExpiryInBounds(base, next, abs) ==
    \/ next \in 0..MaxExpiry
    \/ abs = 3650 /\ base \in 0..MaxExpiry

extendMyGroupAssignmentByEmail_FromNow(email, selector, addDays) ==
    LET re(status) ==
            Response("extendMy", status,
                     [email |-> email, selector |-> selector, addDays |-> addDays], <<>>, 0)
        user == getUserByEmail(trim(email))
        groupId == resolveGroupId(agentGroup, selector)
        existing == findLatestGroupAssignment(assignedGroup, user, groupId)
        abs == IF addDays < 0 THEN 0 - addDays ELSE addDays
    IN  /\ UNCHANGED <<assignedAgent, agentGroup, agentGroupItem, now, aux>>
        /\ IF ~IsInteger(addDays) \/ abs > 3650
           THEN resp' = re("BadRequest") /\ UNCHANGED assignedGroup
           ELSE IF user = "NotFound"
           THEN resp' = re("NotFound") /\ UNCHANGED assignedGroup
           ELSE IF groupId \in {"NotFound", "BadRequest"}
           THEN resp' = re(groupId) /\ UNCHANGED assignedGroup
           ELSE IF existing = {}
           THEN resp' = re("NotFound") /\ UNCHANGED assignedGroup
           ELSE \E i \in existing :
                    LET next == AddDays(now, addDays)
                    IN  /\ ExpiryInBounds(now, next, abs)
                        /\ updateGroupAssignment(
                               [assignedGroup EXCEPT ![i].expiresAt = next],
                               re("ok"), re("P2002"))

extendMyGroupAssignmentByEmail(email, selector, addDays) ==
    LET re(status) ==
            Response("extendMy", status,
                     [email |-> email, selector |-> selector, addDays |-> addDays], <<>>, 0)
        user == getUserByEmail(trim(email))
        groupId == resolveGroupId(agentGroup, selector)
        existing == findLatestGroupAssignment(assignedGroup, user, groupId)
        abs == IF addDays < 0 THEN 0 - addDays ELSE addDays
    IN  /\ UNCHANGED <<assignedAgent, agentGroup, agentGroupItem, now, aux>>
        /\ IF ~IsInteger(addDays) \/ abs > 3650
           THEN resp' = re("BadRequest") /\ UNCHANGED assignedGroup
           ELSE IF user = "NotFound"
           THEN resp' = re("NotFound") /\ UNCHANGED assignedGroup
           ELSE IF groupId \in {"NotFound", "BadRequest"}
           THEN resp' = re(groupId) /\ UNCHANGED assignedGroup
           ELSE IF existing = {}
           THEN resp' = re("NotFound") /\ UNCHANGED assignedGroup
           ELSE \E i \in existing :
                    LET base == Coalesce(assignedGroup[i].expiresAt, now)
                        next == AddDays(base, addDays)
                    IN  /\ ExpiryInBounds(base, next, abs)
                        /\ updateGroupAssignment(
                               [assignedGroup EXCEPT ![i].expiresAt = next],
                               re("ok"), re("P2002"))

deactivateMyGroupAssignmentByEmail(email, selector) ==
    LET re(status) ==
            Response("deactivateMy", status, [email |-> email, selector |-> selector],
                     <<>>, 0)
        user == getUserByEmail(trim(email))
        groupId == resolveGroupId(agentGroup, selector)
        existing == findActiveGroupAssignment(assignedGroup, user, groupId)
    IN  /\ UNCHANGED <<assignedAgent, agentGroup, agentGroupItem, now, aux>>
        /\ IF user = "NotFound"
           THEN resp' = re("NotFound") /\ UNCHANGED assignedGroup
           ELSE IF groupId \in {"NotFound", "BadRequest"}
           THEN resp' = re(groupId) /\ UNCHANGED assignedGroup
           ELSE IF existing = {}
           THEN resp' = re("NotFound") /\ UNCHANGED assignedGroup
           ELSE \E i \in existing :
                    updateGroupAssignment([assignedGroup EXCEPT ![i].isActive = FALSE],
                                          re("ok"), re("P2002"))

(***************************************************************************)
(* Selection Mirror (UserAgentSelectionService)                            *)
(***************************************************************************)
\* the strings a selection request may carry as agent names
AgentInputs == {"JIM", "ALEX", "jim", " alex ", "BOB"}

\* String(v).trim().toUpperCase() on AgentInputs
normalizeName(v) ==
    IF v = "jim" THEN "JIM"
    ELSE IF v = " alex " THEN "ALEX"
    ELSE v

dedupe_Keep(arr) == arr

dedupe(arr) == DedupeInto(<<>>, arr)

\* validateAndNormalize: [ok |-> FALSE] on a name outside the enum
validateAndNormalize(values) ==
    LET upper == [k \in 1..Len(values) |-> normalizeName(values[k])]
    IN  IF \E k \in 1..Len(values) : upper[k] \notin AgentNames
        THEN [ok |-> FALSE, out |-> <<>>]
        ELSE [ok |-> TRUE, out |-> dedupe(upper)]

\* UserSelector: { id } or { email }; "" is the absent field
ById(id) == [id |-> id, email |-> ""]

ByEmail(email) == [id |-> "", email |-> email]

\* resolveUser: findUnique by id or by email (as given, not trimmed)
resolveUser(selector) ==
    IF selector.id # ""
    THEN IF \E m \in UserEmails : UserIdOf(m) = selector.id THEN selector.id
         ELSE "NotFound"
    ELSE getUserByEmail(selector.email)

\* current.filter((a) => !remove.has(a))
without(current, remove) == SelectSeq(current, LAMBDA a : a \notin remove)

selectionEnds_Revokes(op, selector, agents, status, set) ==
    LET user == resolveUser(selector)
        re(st, ret) ==
            Response(op, st, [selector |-> selector, agents |-> agents], ret, 0)
    IN  /\ UNCHANGED <<assignedGroup, agentGroup, agentGroupItem, now, prev, req, cx>>
        /\ IF status # "ok"
           THEN resp' = re(status, <<>>) /\ UNCHANGED <<selectedAgents, assignedAgent>>
           ELSE /\ selectedAgents' = [selectedAgents EXCEPT ![user] = set]
                /\ assignedAgent' =
                       [i \in 1..Len(assignedAgent) |->
                          IF /\ assignedAgent[i].userId = user
                             /\ assignedAgent[i].agentName \notin Range(set)
                          THEN [assignedAgent[i] EXCEPT !.isActive = FALSE]
                          ELSE assignedAgent[i]]
                /\ resp' = re("ok", set)

\* how a selection request ends: the list it writes for the user it
\* resolved, or the exception it throws
selectionEnds(op, selector, agents, status, set) ==
    LET user == resolveUser(selector)
        re(st, ret) ==
            Response(op, st, [selector |-> selector, agents |-> agents], ret, 0)
    IN  /\ UNCHANGED <<store, now, prev, req, cx>>
        /\ IF status # "ok"
           THEN resp' = re(status, <<>>) /\ UNCHANGED selectedAgents
           ELSE /\ selectedAgents' = [selectedAgents EXCEPT ![user] = set]
                /\ resp' = re("ok", set)

\* setSelectedAgents / setSelectedAgentsByEmail
setSelectedAgents(selector, agents) ==
    LET clean == validateAndNormalize(agents)
        user == resolveUser(selector)
    IN  IF ~clean.ok THEN selectionEnds("set", selector, agents, "BadRequest", <<>>)
        ELSE IF user = "NotFound"
        THEN selectionEnds("set", selector, agents, "NotFound", <<>>)
        ELSE selectionEnds("set", selector, agents, "ok", clean.out)

\* UserAgentSelectionService.addAgents / addAgentsByEmail
selectionAddAgents(selector, agentsToAdd) ==
    LET add == validateAndNormalize(agentsToAdd)
        user == resolveUser(selector)
    IN  IF ~add.ok THEN selectionEnds("add", selector, agentsToAdd, "BadRequest", <<>>)
        ELSE IF user = "NotFound"
        THEN selectionEnds("add", selector, agentsToAdd, "NotFound", <<>>)
        ELSE selectionEnds("add", selector, agentsToAdd, "ok",
                           dedupe(selectedAgents[user] \o add.out))

\* UserAgentSelectionService.removeAgents / removeAgentsByEmail
selectionRemoveAgents(selector, agentsToRemove) ==
    LET remove == validateAndNormalize(agentsToRemove)
        user == resolveUser(selector)
    IN  IF ~remove.ok
        THEN selectionEnds("remove", selector, agentsToRemove, "BadRequest", <<>>)
        ELSE IF user = "NotFound"
        THEN selectionEnds("remove", selector, agentsToRemove, "NotFound", <<>>)
        ELSE selectionEnds("remove", selector, agentsToRemove, "ok",
                           without(selectedAgents[user], Range(remove.out)))

\* toggleAgent / toggleAgentByEmail
toggleAgent(selector, agent) ==
    LET v == validateAndNormalize(<<agent>>)
        user == resolveUser(selector)
    IN  IF ~v.ok THEN selectionEnds("toggle", selector, <<agent>>, "BadRequest", <<>>)
        ELSE IF user = "NotFound"
        THEN selectionEnds("toggle", selector, <<agent>>, "NotFound", <<>>)
        ELSE LET normalized == v.out[1]
                 current == selectedAgents[user]
             IN  selectionEnds("toggle", selector, <<agent>>, "ok",
                               IF normalized \in Range(current)
                               THEN without(current, {normalized})
                               ELSE dedupe(Append(current, normalized)))

\* clearAgents / clearAgentsByEmail
clearAgents(selector) ==
    IF resolveUser(selector) = "NotFound"
    THEN selectionEnds("clear", selector, <<>>, "NotFound", <<>>)
    ELSE selectionEnds("clear", selector, <<>>, "ok", <<>>)

\* UserAgentSelectionService.getSelectedAgents / getSelectedAgentsByEmail
selectionGet(selector) ==
    LET user == resolveUser(selector)
    IN  /\ UNCHANGED <<store, now, aux>>
        /\ resp' = IF user = "NotFound"
                   THEN Response("get", "NotFound", [selector |-> selector], <<>>, 0)
                   ELSE Response("get", "ok", [selector |-> selector],
                                 selectedAgents[user], 0)

(***************************************************************************)
(* Spec: the Direct Assignment Engine, requests one at a time, and time    *)
(***************************************************************************)
NoCall == [startsAt |-> Undefined, expiresAt |-> Undefined, durationDays |-> Undefined,
           done |-> FALSE, out |-> [startsAt |-> Undefined, expiresAt |-> Undefined]]

\* no request in flight
NoRequest == [pc |-> "idle"]

\* the User rows as they are created: nothing selected
NoSelection == [u \in {UserIdOf(m) : m \in UserEmails} |-> <<>>]

Init ==
    /\ assignedAgent = <<>>
    /\ assignedGroup = <<>>
    /\ agentGroup = <<>>
    /\ agentGroupItem = <<>>
    /\ now = 0
    /\ resp = NoResponse
    /\ prev = NoResponse
    /\ req = [i \in Clients |-> NoRequest]
    /\ cx = NoCall
    /\ selectedAgents = NoSelection

\* the grants a request of Spec may name: any agent for the first user, with
\* any window, and JIM without a window for the second user and for an
\* unknown one
Grants ==
    {<<"a@x.com", n, o>> : n \in AgentNames, o \in OptsWindow}
    \cup {<<"b@x.com", "JIM", NoOpts>>, <<"nobody@x.com", "JIM", NoOpts>>}

\* POST /admin/assign
assignSingle ==
    /\ Idle
    /\ \E g \in Grants : assignAgentByEmail(g[1], g[2], g[3])

\* POST /admin/deactivate
deactivate ==
    /\ Idle
    /\ \E g \in Grants : deactivateAgentByEmail(g[1], g[2])

\* GET /admin/assignments
listByEmail ==
    /\ Idle
    /\ \E email \in {"a@x.com", "nobody@x.com"}, activeOnly \in BOOLEAN :
            listAssignmentsByEmail(email, activeOnly)

\* GET /admin/selected-agents
getSelected ==
    /\ Idle
    /\ \E email \in Emails : getSelectedAgentsByEmail(email)

\* the response reaches the caller
reply ==
    /\ ~Idle
    /\ resp' = NoResponse
    /\ UNCHANGED <<store, now, aux>>

\* time passes between requests
Tick ==
    /\ Idle
    /\ now < MaxTime
    /\ now' = now + 1
    /\ UNCHANGED <<store, resp, aux>>

Next ==
    \/ assignSingle
    \/ deactivate
    \/ listByEmail
    \/ getSelected
    \/ reply
    \/ Tick

Spec == Init /\ [][Next]_vars

(***************************************************************************)
(* SpecPatch: the single-agent assigns of one (user, agent) pair, every     *)
(* combination of window fields, remembering the request before the last   *)
(***************************************************************************)
\* POST /admin/assign
assignPatch ==
    /\ Idle
    /\ \E opts \in OptsAll : assignAgentByEmail("a@x.com", "JIM", opts)

\* the response reaches the caller, who remembers the request
deliver ==
    /\ ~Idle
    /\ resp' = NoResponse
    /\ prev' = resp
    /\ UNCHANGED <<store, now, req, cx, selectedAgents>>

NextPatch == assignPatch \/ deliver

SpecPatch == Init /\ [][NextPatch]_vars

(***************************************************************************)
(* Requests of the specifications with groups                              *)
(***************************************************************************)
\* the flags a request may carry
OptsFlag == {NoOpts, [NoOpts EXCEPT !.isActive = "false"]}

Selectors ==
    {NoSelector, [NoSelector EXCEPT !.groupId = "g1"], [NoSelector EXCEPT !.groupId = "g2"],
     [NoSelector EXCEPT !.groupName = "G2"]}

\* the selector arrays an assign-multiple-groups request may carry
SelectorLists ==
    LET g1 == [NoSelector EXCEPT !.groupId = "g1"]
        g2 == [NoSelector EXCEPT !.groupId = "g2"]
        n2 == [NoSelector EXCEPT !.groupName = "G2"]
    IN  {<<>>, <<g1>>, <<g1, g2>>, <<g2, g1>>, <<g1, g1>>, <<n2, g1>>, <<n2, NoSelector>>}

\* the controller's check of a selector before it calls the service
hasSelector(selector) == selector.groupId # "" \/ selector.groupName # ""

\* throw new BadRequestException(...) in the controller
reject(op, args) ==
    /\ resp' = Response(op, "BadRequest", args, <<>>, 0)
    /\ UNCHANGED <<store, now, aux>>

\* the statement of a transaction that fails (0: none)
FailAt == {0, 2}

\* POST /admin/groups
createGroup ==
    /\ Idle
    /\ \E name \in GroupNames : createAgentGroup(name)

\* POST /admin/groups/:id/agents: JIM into the first group, JIM and ALEX into
\* the second
addAgents ==
    /\ Idle
    /\ \E m \in {<<"g1", <<"JIM">>>>, <<"g2", <<"JIM", "ALEX">>>>} :
            addAgentsToGroup(m[1], m[2])

\* POST /admin/assign/group
assignGroupWith(flags) ==
    /\ Idle
    /\ \E selector \in Selectors, opts \in flags, failAt \in FailAt :
            IF ~hasSelector(selector)
            THEN reject("assignGroup",
                        [email |-> "a@x.com", selector |-> selector, opts |-> opts])
            ELSE assignAgentGroupByEmail("a@x.com", selector, opts, failAt)

\* POST /admin/assign/groups
assignGroupsWith(flags) ==
    /\ Idle
    /\ \E selectors \in SelectorLists, opts \in flags, failAt \in FailAt :
            IF \E k \in 1..Len(selectors) : ~hasSelector(selectors[k])
            THEN reject("assignGroups",
                        [email |-> "a@x.com", selectors |-> selectors, opts |-> opts])
            ELSE assignAgentGroupsByEmail("a@x.com", selectors, opts, failAt)

(***************************************************************************)
(* SpecDirect: every sequential writer of AssignedAgent for one user       *)
(***************************************************************************)
\* POST /admin/assign
assignSingleDirect ==
    /\ Idle
    /\ \E g \in {<<"a@x.com", n, o>> : n \in AgentNames, o \in OptsFlag}
                \cup {<<"b@x.com", "JIM", NoOpts>>} :
            assignAgentByEmail(g[1], g[2], g[3])

\* POST /admin/assign/bulk
assignBulk ==
    /\ Idle
    /\ \E agentNames \in AgentLists, opts \in OptsFlag, failAt \in 0..2 :
            assignAgentsByEmail("a@x.com", agentNames, opts, failAt)

\* POST /admin/deactivate
deactivateDirect ==
    /\ Idle
    /\ \E agentName \in AgentNames : deactivateAgentByEmail("a@x.com", agentName)

assignGroupDirect == assignGroupWith(OptsFlag)

assignGroupsDirect == assignGroupsWith(OptsFlag)

\* POST /admin/group-assignments with alsoAssignAgents (its default)
assignGroupToUserDirect ==
    /\ Idle
    /\ \E selector \in Selectors, opts \in OptsFlag, failAt \in FailAt :
            IF ~hasSelector(selector)
            THEN reject("assignGroupToUser",
                        [email |-> "a@x.com", selector |-> selector, opts |-> opts,
                         alsoAssignAgents |-> TRUE])
            ELSE assignGroupToUserByEmail("a@x.com", selector, opts, TRUE, failAt)

NextDirect ==
    \/ createGroup
    \/ addAgents
    \/ assignSingleDirect
    \/ assignBulk
    \/ deactivateDirect
    \/ assignGroupDirect
    \/ assignGroupsDirect
    \/ assignGroupToUserDirect
    \/ reply

SpecDirect == Init /\ [][NextDirect]_vars

(***************************************************************************)
(* SpecGroups: every sequential writer of AssignedGroup for one user.      *)
(* The flag isActive = false comes with the requests that write            *)
(* AssignedGroup only.                                                     *)
(***************************************************************************)
assignGroup == assignGroupWith({NoOpts})

assignGroups == assignGroupsWith({NoOpts})

\* POST /admin/group-assignments
assignGroupToUser ==
    /\ Idle
    /\ \E selector \in Selectors, failAt \in FailAt,
          o \in {<<"a@x.com", NoOpts, TRUE>>, <<"a@x.com", NoOpts, FALSE>>,
                 <<"a@x.com", [NoOpts EXCEPT !.isActive = "false"], FALSE>>,
                 <<"b@x.com", NoOpts, FALSE>>} :
            IF ~hasSelector(selector)
            THEN reject("assignGroupToUser",
                        [email |-> o[1], selector |-> selector, opts |-> o[2],
                         alsoAssignAgents |-> o[3]])
            ELSE assignGroupToUserByEmail(o[1], selector, o[2], o[3], failAt)

\* POST /admin/group-assignments/deactivate
deactivateGroupAssignment ==
    /\ Idle
    /\ \E selector \in Selectors :
            IF ~hasSelector(selector)
            THEN reject("deactivateGroup", [email |-> "a@x.com", selector |-> selector])
            ELSE deactivateGroupByEmail("a@x.com", selector)

\* PATCH /admin/my/group-assignment
updateMyGroupAssignment ==
    /\ Idle
    /\ \E selector \in Selectors,
          updates \in {[NoOpts EXCEPT !.isActive = "true"],
                       [NoOpts EXCEPT !.isActive = "false"]} :
            IF ~hasSelector(selector)
            THEN reject("updateMy",
                        [email |-> "a@x.com", selector |-> selector, updates |-> updates])
            ELSE updateMyGroupAssignmentByEmail("a@x.com", selector, updates)

\* POST /admin/my/group-assignment/extend
extendMyGroupAssignment ==
    /\ Idle
    /\ \E selector \in Selectors, addDays \in {1, 3651} :
            IF ~hasSelector(selector)
            THEN reject("extendMy",
                        [email |-> "a@x.com", selector |-> selector, addDays |-> addDays])
            ELSE extendMyGroupAssignmentByEmail("a@x.com", selector, addDays)

\* POST /admin/my/group-assignment/deactivate
deactivateMyGroupAssignment ==
    /\ Idle
    /\ \E selector \in Selectors :
            IF ~hasSelector(selector)
            THEN reject("deactivateMy", [email |-> "a@x.com", selector |-> selector])
            ELSE deactivateMyGroupAssignmentByEmail("a@x.com", selector)

NextGroups ==
    \/ createGroup
    \/ addAgents
    \/ assignGroup
    \/ assignGroups
    \/ assignGroupToUser
    \/ deactivateGroupAssignment
    \/ updateMyGroupAssignment
    \/ extendMyGroupAssignment
    \/ deactivateMyGroupAssignment
    \/ reply

SpecGroups == Init /\ [][NextGroups]_vars

(***************************************************************************)
(* SpecNames: the groups and their names, edited one request at a time,    *)
(* remembering the request before the last                                 *)
(***************************************************************************)
\* the names a group request may carry: two plain ones, one padded with
\* blanks, a blank and the empty string
NameInputs == {"G1", "G2", " G1 ", " ", ""}

\* the number of characters of a name of NameInputs
Length(s) ==
    IF s = "" THEN 0
    ELSE IF s = " " THEN 1
    ELSE IF s = " G1 " THEN 4
    ELSE 2

\* CreateGroupDto: @IsString() @Length(1, 200) name
CreateGroupDto(name) == Length(name) >= 1 /\ Length(name) <= 200

\* POST /admin/groups
createGroupNamed ==
    /\ Idle
    /\ \E name \in NameInputs :
            IF ~CreateGroupDto(name)
            THEN reject("createGroup", [name |-> name])
            ELSE createAgentGroup(name)

\* PATCH /admin/groups/:id; UpdateGroupDto: every field optional, name ""
\* stands for a body without name
updateGroup ==
    /\ Idle
    /\ \E id \in Range(GroupIds), name \in NameInputs,
          isActive \in {"undefined", "false"} :
            updateAgentGroup(id, name, isActive)

\* CreateGroupWithAgentsDto: name as in CreateGroupDto, agentNames as in
\* AgentsArrayDto
CreateGroupWithAgentsDto(name, agentNames) ==
    /\ CreateGroupDto(name)
    /\ Len(agentNames) >= 1
    /\ Range(agentNames) \subseteq AgentNames

\* POST /admin/groups-with-agents
createGroupWithAgents ==
    /\ Idle
    /\ \E name \in NameInputs, agentNames \in {<<>>, <<"JIM">>, <<"ALEX", "ALEX">>},
          failAt \in 0..2 :
            IF ~CreateGroupWithAgentsDto(name, agentNames)
            THEN reject("createGroupWithAgents",
                        [name |-> name, agentNames |-> agentNames, failAt |-> failAt])
            ELSE createAgentGroupWithAgents(name, agentNames, failAt)

NextNames ==
    \/ createGroupNamed
    \/ updateGroup
    \/ createGroupWithAgents
    \/ deliver

SpecNames == Init /\ [][NextNames]_vars

(***************************************************************************)
(* SpecExtend: the group assignments of one user; the ones for the first   *)
(* group are extended and reduced by days while the clock runs             *)
(***************************************************************************)
\* POST /admin/group-assignments without materialization: the first group
\* with no window and with a window of one day, the second with no window
assignGroupOnly ==
    /\ Idle
    /\ \E a \in {<<"g1", NoOpts>>, <<"g1", [NoOpts EXCEPT !.durationDays = 1]>>,
                 <<"g2", NoOpts>>} :
            assignGroupToUserByEmail("a@x.com", [NoSelector EXCEPT !.groupId = a[1]],
                                     a[2], FALSE, 0)

\* ExtendMyGroupAssignmentDto: @Transform(toNumber) @IsInt() @Min(-3650)
\* @Max(3650) addDays
ExtendMyGroupAssignmentDto(addDays) ==
    IsInteger(addDays) /\ addDays >= -3650 /\ addDays <= 3650

\* POST /admin/my/group-assignment/extend
extendBy ==
    /\ Idle
    /\ \E selector \in {NoSelector, [NoSelector EXCEPT !.groupId = "g1"]},
          addDays \in {1, -1, 3650, 3651, Fraction} :
            IF ~ExtendMyGroupAssignmentDto(addDays) \/ ~hasSelector(selector)
            THEN reject("extendMy",
                        [email |-> "a@x.com", selector |-> selector, addDays |-> addDays])
            ELSE extendMyGroupAssignmentByEmail("a@x.com", selector, addDays)

\* AdminService.extendMyGroupAssignmentByEmail called by a provider that
\* imports AdminModule: no DTO stands in front of it
extendMyGroupAssignmentByEmailCall ==
    /\ Idle
    /\ \E addDays \in {-3651, Fraction} :
            extendMyGroupAssignmentByEmail("a@x.com", [NoSelector EXCEPT !.groupId = "g1"],
                                           addDays)

NextExtend ==
    \/ createGroup
    \/ assignGroupOnly
    \/ deactivateGroupAssignment
    \/ extendBy
    \/ extendMyGroupAssignmentByEmailCall
    \/ Tick
    \/ reply

SpecExtend == Init /\ [][NextExtend]_vars

(***************************************************************************)
(* SpecMirror: the Selection Mirror of two users, one request at a time    *)
(***************************************************************************)
\* the users a selection request may name, by id and by email
UserSelectors ==
    {ById("u1"), ById("u2"), ById("u9"), ByEmail("a@x.com"), ByEmail("nobody@x.com")}

\* the agents arrays a selection request may carry
SelectionLists ==
    {<<>>, <<"JIM">>, <<"jim", "JIM">>, <<" alex ">>, <<"ALEX", "jim">>, <<"JIM", "BOB">>}

selectionSet ==
    /\ Idle
    /\ \E selector \in UserSelectors, agents \in SelectionLists :
            setSelectedAgents(selector, agents)

selectionAdd ==
    /\ Idle
    /\ \E selector \in UserSelectors, agents \in SelectionLists :
            selectionAddAgents(selector, agents)

selectionRemove ==
    /\ Idle
    /\ \E selector \in UserSelectors, agents \in SelectionLists :
            selectionRemoveAgents(selector, agents)

selectionToggle ==
    /\ Idle
    /\ \E selector \in UserSelectors, agent \in AgentInputs : toggleAgent(selector, agent)

selectionClear ==
    /\ Idle
    /\ \E selector \in UserSelectors : clearAgents(selector)

NextMirror ==
    \/ selectionSet
    \/ selectionAdd
    \/ selectionRemove
    \/ selectionToggle
    \/ selectionClear
    \/ reply

SpecMirror == Init /\ [][NextMirror]_vars

(***************************************************************************)
(* SpecBoth: the Selection Mirror and the assignment engines at work on    *)
(* the same user, one request at a time                                    *)
(***************************************************************************)
mirrorSet ==
    /\ Idle
    /\ setSelectedAgents(ById("u1"), <<"ALEX", "JIM">>)

mirrorAdd ==
    /\ Idle
    /\ selectionAddAgents(ByEmail("a@x.com"), <<"JIM">>)

mirrorRemove ==
    /\ Idle
    /\ selectionRemoveAgents(ById("u1"), <<"JIM">>)

mirrorToggle ==
    /\ Idle
    /\ toggleAgent(ByEmail("a@x.com"), "ALEX")

mirrorClear ==
    /\ Idle
    /\ clearAgents(ById("u1"))

mirrorGet ==
    /\ Idle
    /\ selectionGet(ById("u1"))

\* GET /admin/selected-agents
engineGetSelected ==
    /\ Idle
    /\ getSelectedAgentsByEmail("a@x.com")

\* POST /admin/assign
engineAssign ==
    /\ Idle
    /\ assignAgentByEmail("a@x.com", "JIM", NoOpts)

\* POST /admin/assign/bulk
engineAssignBulk ==
    /\ Idle
    /\ assignAgentsByEmail("a@x.com", <<"JIM", "ALEX">>, NoOpts, 0)

\* POST /admin/deactivate
engineDeactivate ==
    /\ Idle
    /\ deactivateAgentByEmail("a@x.com", "JIM")

\* POST /admin/groups
engineCreateGroup ==
    /\ Idle
    /\ createAgentGroup("G1")

\* POST /admin/groups/:id/agents
engineAddAgents ==
    /\ Idle
    /\ addAgentsToGroup("g1", <<"ALEX">>)

\* POST /admin/assign/group
engineAssignGroup ==
    /\ Idle
    /\ assignAgentGroupByEmail("a@x.com", [NoSelector EXCEPT !.groupId = "g1"], NoOpts, 0)

\* POST /admin/group-assignments
engineAssignGroupToUser ==
    /\ Idle
    /\ assignGroupToUserByEmail("a@x.com", [NoSelector EXCEPT !.groupName = "G1"], NoOpts,
                                TRUE, 0)

\* POST /admin/group-assignments/deactivate
engineDeactivateGroup ==
    /\ Idle
    /\ deactivateGroupByEmail("a@x.com", [NoSelector EXCEPT !.groupId = "g1"])

\* PATCH /admin/my/group-assignment
engineUpdate ==
    /\ Idle
    /\ updateMyGroupAssignmentByEmail("a@x.com", [NoSelector EXCEPT !.groupId = "g1"],
                                      [NoOpts EXCEPT !.isActive = "true"])

\* POST /admin/my/group-assignment/extend
engineExtend ==
    /\ Idle
    /\ extendMyGroupAssignmentByEmail("a@x.com", [NoSelector EXCEPT !.groupId = "g1"], 1)

NextBoth ==
    \/ mirrorSet
    \/ mirrorAdd
    \/ mirrorRemove
    \/ mirrorToggle
    \/ mirrorClear
    \/ mirrorGet
    \/ engineGetSelected
    \/ engineAssign
    \/ engineAssignBulk
    \/ engineDeactivate
    \/ engineCreateGroup
    \/ engineAddAgents
    \/ engineAssignGroup
    \/ engineAssignGroupToUser
    \/ engineDeactivateGroup
    \/ engineUpdate
    \/ engineExtend
    \/ reply

SpecBoth == Init /\ [][NextBoth]_vars

(***************************************************************************)
(* SpecCreateAssign: groups created with their members and assigned in the *)
(* same request                                                            *)
(***************************************************************************)
\* @IsEmail() on the emails a request of this specification may carry
IsEmail(s) == s \in {"a@x.com", "b@x.com", "nobody@x.com"}

\* POST /admin/groups-with-agents/assign
createGroupWithAgentsAndAssign ==
    /\ Idle
    /\ \E email \in {"a@x.com", "nobody@x.com", ""}, name \in {"G1", "G2", " "},
          agentNames \in {<<"JIM">>, <<"ALEX", "JIM">>}, opts \in OptsFlag,
          failAt \in FailAt :
            IF ~IsEmail(email) \/ ~CreateGroupWithAgentsDto(name, agentNames)
            THEN reject("createGroupAndAssign",
                        [email |-> email, name |-> name, agentNames |-> agentNames,
                         opts |-> opts])
            ELSE createGroupWithAgentsAndAssignByEmail(email, name, agentNames, opts,
                                                       failAt)

NextCreateAssign ==
    \/ createGroupWithAgentsAndAssign
    \/ deactivateGroupAssignment
    \/ deactivateDirect
    \/ reply

SpecCreateAssign == Init /\ [][NextCreateAssign]_vars

(***************************************************************************)
(* SpecMembers: the membership of two groups, edited one request at a time, *)
(* remembering the request before the last                                 *)
(***************************************************************************)
\* the agentNames arrays of the membership requests
MemberLists ==
    {<<>>, <<"JIM">>, <<"ALEX">>, <<"JIM", "ALEX">>, <<"ALEX", "JIM">>, <<"ALEX", "ALEX">>}

\* AgentsArrayDto: @IsArray() @ArrayMinSize(1) @IsEnum(AgentName, { each: true })
AgentsArrayDto(agentNames) == Len(agentNames) >= 1 /\ Range(agentNames) \subseteq AgentNames

\* POST /admin/groups/:id/agents
addAgentsAny ==
    /\ Idle
    /\ \E groupId \in Range(GroupIds), agentNames \in MemberLists :
            IF ~AgentsArrayDto(agentNames)
            THEN reject("addAgents", [groupId |-> groupId, agentNames |-> agentNames])
            ELSE addAgentsToGroup(groupId, agentNames)

\* DELETE /admin/groups/:id/agents
removeAgents ==
    /\ Idle
    /\ \E groupId \in Range(GroupIds), agentNames \in MemberLists :
            IF ~AgentsArrayDto(agentNames)
            THEN reject("removeAgents", [groupId |-> groupId, agentNames |-> agentNames])
            ELSE removeAgentsFromGroup(groupId, agentNames)

\* PUT /admin/groups/:id/agents
replaceAgents ==
    /\ Idle
    /\ \E groupId \in Range(GroupIds), agentNames \in MemberLists, failAt \in 0..2 :
            IF ~AgentsArrayDto(agentNames)
            THEN reject("replaceAgents",
                        [groupId |-> groupId, agentNames |-> agentNames, failAt |-> failAt])
            ELSE replaceGroupAgents(groupId, agentNames, failAt)

\* AdminService.replaceGroupAgents called by a provider that imports
\* AdminModule: no DTO stands in front of it
replaceGroupAgentsCall ==
    /\ Idle
    /\ \E groupId \in Range(GroupIds), agentNames \in MemberLists, failAt \in 0..2 :
            /\ replaceGroupAgents(groupId, agentNames, failAt)
            /\ resp'.op = "replaceAgents"

NextMembers ==
    \/ createGroup
    \/ addAgentsAny
    \/ removeAgents
    \/ replaceAgents
    \/ replaceGroupAgentsCall
    \/ deliver

SpecMembers == Init /\ [][NextMembers]_vars

(***************************************************************************)
(* SpecReassign: one user's group assignments while the membership of the  *)
(* groups is edited                                                        *)
(***************************************************************************)
\* DELETE /admin/groups/:id/agents: one agent out of the second group
removeAgent ==
    /\ Idle
    /\ \E agentName \in AgentNames : removeAgentsFromGroup("g2", <<agentName>>)

\* POST /admin/assign/group, without a window, with a duration or with
\* isActive = false
assignGroupAgain ==
    /\ Idle
    /\ \E selector \in Selectors,
          opts \in OptsFlag \cup {[NoOpts EXCEPT !.durationDays = 1]} :
            IF ~hasSelector(selector)
            THEN reject("assignGroup",
                        [email |-> "a@x.com", selector |-> selector, opts |-> opts])
            ELSE assignAgentGroupByEmail("a@x.com", selector, opts, 0)

NextReassign ==
    \/ createGroup
    \/ addAgents
    \/ removeAgent
    \/ assignGroupAgain
    \/ reply

SpecReassign == Init /\ [][NextReassign]_vars

(***************************************************************************)
(* SpecRerun: one user's group assignments while transactions fail, the    *)
(* caller remembering the request that failed                              *)
(***************************************************************************)
\* POST /admin/assign/group; the transaction may fail at its first or second
\* statement
assignGroupFailing ==
    /\ Idle
    /\ \E selector \in Selectors, opts \in OptsFlag, failAt \in 0..2 :
            IF ~hasSelector(selector)
            THEN reject("assignGroup",
                        [email |-> "a@x.com", selector |-> selector, opts |-> opts])
            ELSE assignAgentGroupByEmail("a@x.com", selector, opts, failAt)

\* the response reaches the caller, who keeps the request to run it again
\* when its transaction failed
deliverFailed ==
    /\ ~Idle
    /\ resp' = NoResponse
    /\ prev' = IF resp.status = "StoreError" THEN resp ELSE NoResponse
    /\ UNCHANGED <<store, now, req, cx, selectedAgents>>

NextRerun ==
    \/ createGroup
    \/ addAgents
    \/ assignGroupFailing
    \/ deliverFailed

SpecRerun == Init /\ [][NextRerun]_vars

(***************************************************************************)
(* SpecExpiry: computeExpiry on its own, on every combination of absent,   *)
(* null, Date and string arguments, at any time                            *)
(***************************************************************************)
InitExpiry ==
    /\ assignedAgent = <<>>
    /\ assignedGroup = <<>>
    /\ agentGroup = <<>>
    /\ agentGroupItem = <<>>
    /\ now \in 0..MaxTime
    /\ resp = NoResponse
    /\ prev = NoResponse
    /\ req = [i \in Clients |-> NoRequest]
    /\ cx \in [startsAt : {Undefined, 0, 1, StringTag + 1},
               expiresAt : {Undefined, Null, 0, 2, StringTag + 2},
               durationDays : {Undefined, Null, -1, 0, 1, 2},
               done : {FALSE},
               out : {NoCall.out}]
    /\ selectedAgents = NoSelection

callComputeExpiry ==
    /\ ~cx.done
    /\ cx' = [cx EXCEPT !.done = TRUE,
                        !.out = computeExpiry(cx.startsAt, cx.expiresAt,
                                              cx.durationDays, now)]
    /\ UNCHANGED <<store, now, resp, prev, req, selectedAgents>>

NextExpiry == callComputeExpiry

SpecExpiry == InitExpiry /\ [][NextExpiry]_vars

(***************************************************************************)
(* SpecRace: single-agent assigns of one user whose store round trips      *)
(* interleave.  upsertActiveAssignment awaits findFirst, then awaits       *)
(* update or create; nothing holds the row between the two.                *)
(***************************************************************************)
\* the request arrives: email checked, user resolved, window computed
raceStart(c) ==
    /\ req[c].pc = "idle"
    /\ \E agentName \in AgentNames, opts \in OptsWindow :
            LET w == Window(opts, now)
            IN  req' = [req EXCEPT ![c] =
                    [pc |-> "find",
                     p |-> [userId |-> getUserByEmail(trim("a@x.com")),
                            agentName |-> agentName,
                            startsAt |-> w.startsAt, expiresAt |-> w.expiresAt,
                            durationDays |-> Coalesce(opts.durationDays, Null),
                            isActive |-> opts.isActive]]]
    /\ UNCHANGED <<store, now, resp, prev, cx, selectedAgents>>

\* await prisma.assignedAgent.findFirst(...)
raceFind(c) ==
    /\ req[c].pc = "find"
    /\ LET existingActive ==
               findActiveAssignment(assignedAgent, req[c].p.userId, req[c].p.agentName)
       IN  IF existingActive = {}
           THEN req' = [req EXCEPT ![c] = [pc |-> "create", p |-> req[c].p]]
           ELSE \E i \in existingActive :
                    req' = [req EXCEPT ![c] =
                        [pc |-> "update", p |-> req[c].p,
                         existingActive |-> assignedAgent[i]]]
    /\ UNCHANGED <<store, now, resp, prev, cx, selectedAgents>>

raceWrite_LooksAgain(c) ==
    /\ req[c].pc \in {"create", "update"}
    /\ \E t \in upsertActiveAssignment(assignedAgent, req[c].p, now) :
            /\ Len(t) <= MaxAssignedAgents
            /\ assignedAgent' = t
    /\ req' = [req EXCEPT ![c] = [pc |-> "done", p |-> req[c].p, was |-> req[c].pc]]
    /\ UNCHANGED <<assignedGroup, agentGroup, agentGroupItem, now, resp, prev, cx, selectedAgents>>

\* await prisma.assignedAgent.update(...) or create(...), on what findFirst
\* returned
raceWrite(c) ==
    /\ req[c].pc \in {"create", "update"}
    /\ LET p == req[c].p
       IN  IF req[c].pc = "update"
           THEN LET data == patchRow(req[c].existingActive, p.startsAt, p.expiresAt,
                                     p.durationDays, p.isActive)
                    i == CHOOSE j \in 1..Len(assignedAgent) :
                            assignedAgent[j].id = req[c].existingActive.id
                IN  assignedAgent' = [assignedAgent EXCEPT ![i] =
                        [@ EXCEPT
                            !.startsAt = data.startsAt,
                            !.durationDays = data.durationDays,
                            !.expiresAt = IF p.expiresAt # Undefined THEN p.expiresAt ELSE @,
                            !.isActive = IF IsBoolean(p.isActive) THEN data.isActive ELSE @]]
           ELSE /\ Len(assignedAgent) < MaxAssignedAgents
                /\ assignedAgent' =
                      Append(assignedAgent,
                             newRow(NextId(assignedAgent), p.userId, p.startsAt, p.expiresAt,
                                    p.durationDays, p.isActive, now)
                             @@ [agentName |-> p.agentName])
    /\ req' = [req EXCEPT ![c] = [pc |-> "done", p |-> req[c].p, was |-> req[c].pc]]
    /\ UNCHANGED <<assignedGroup, agentGroup, agentGroupItem, now, resp, prev, cx, selectedAgents>>

\* the response reaches the caller
raceReply(c) ==
    /\ req[c].pc = "done"
    /\ req' = [req EXCEPT ![c] = NoRequest]
    /\ UNCHANGED <<store, now, resp, prev, cx, selectedAgents>>

start == \E c \in Clients : raceStart(c)

find == \E c \in Clients : raceFind(c)

write == \E c \in Clients : raceWrite(c)

replyRace == \E c \in Clients : raceReply(c)

NextRace == start \/ find \/ write \/ replyRace

SpecRace == Init /\ [][NextRace]_vars

(***************************************************************************)
(* SpecReplace: one replaceGroupAgents whose store round trips interleave   *)
(* with readers of the membership.  The statements of the interactive      *)
(* transaction work on the transaction's own view (req[1].tx); the table   *)
(* other connections read changes at COMMIT, and not at all on ROLLBACK.   *)
(***************************************************************************)
\* no replaceGroupAgents in flight
NoWriter == req[1].pc = "idle"

\* groups and members are set up while no replace is in flight
createGroupQuiet == NoWriter /\ createGroup

addAgentsQuiet == NoWriter /\ addAgents

\* replaceGroupAgents is entered: findUnique, dedupe, BEGIN
replaceStart ==
    /\ NoWriter
    /\ Idle
    /\ \E groupId \in Range(GroupIds), agentNames \in MemberLists, failAt \in 0..2 :
            req' = [req EXCEPT ![1] =
                      [pc |-> IF findGroupById(agentGroup, groupId) = {}
                              THEN "notFound" ELSE "began",
                       groupId |-> groupId,
                       next |-> DedupeInto(<<>>, agentNames),
                       failAt |-> failAt,
                       before |-> agentGroupItem,
                       tx |-> agentGroupItem]]
    /\ UNCHANGED <<store, now, resp, prev, cx, selectedAgents>>

replaceDelete_Unwrapped ==
    /\ req[1].pc = "began"
    /\ IF req[1].failAt = 1
       THEN req' = [req EXCEPT ![1].pc = "rolledBack"] /\ UNCHANGED agentGroupItem
       ELSE /\ req' = [req EXCEPT ![1].pc = "deleted",
                                  ![1].tx = deleteManyNotIn(req[1].tx, req[1].groupId,
                                                            req[1].next)]
            /\ agentGroupItem' = deleteManyNotIn(agentGroupItem, req[1].groupId,
                                                 req[1].next)
    /\ UNCHANGED <<assignedAgent, assignedGroup, agentGroup, now, resp, prev, cx, selectedAgents>>

\* await tx.agentGroupItem.deleteMany(...)
replaceDelete ==
    /\ req[1].pc = "began"
    /\ req' = IF req[1].failAt = 1
              THEN [req EXCEPT ![1].pc = "rolledBack"]
              ELSE [req EXCEPT ![1].pc = "deleted",
                               ![1].tx = deleteManyNotIn(req[1].tx, req[1].groupId,
                                                         req[1].next)]
    /\ UNCHANGED <<store, now, resp, prev, cx, selectedAgents>>

\* if (next.length) await tx.agentGroupItem.createMany(...)
replaceCreate ==
    /\ req[1].pc = "deleted"
    /\ req' = IF Len(req[1].next) = 0
              THEN [req EXCEPT ![1].pc = "created"]
              ELSE IF req[1].failAt = 2
              THEN [req EXCEPT ![1].pc = "rolledBack"]
              ELSE [req EXCEPT ![1].pc = "created",
                               ![1].tx = createMany(req[1].tx, req[1].groupId,
                                                    req[1].next)]
    /\ UNCHANGED <<store, now, resp, prev, cx, selectedAgents>>

\* the callback returns: COMMIT
replaceCommit ==
    /\ req[1].pc = "created"
    /\ agentGroupItem' = req[1].tx
    /\ req' = [req EXCEPT ![1].pc = "committed"]
    /\ UNCHANGED <<assignedAgent, assignedGroup, agentGroup, now, resp, prev, cx, selectedAgents>>

\* the route returns or throws
replaceReturn ==
    /\ req[1].pc \in {"committed", "rolledBack", "notFound"}
    /\ req' = [req EXCEPT ![1] = NoRequest]
    /\ UNCHANGED <<store, now, resp, prev, cx, selectedAgents>>

\* GET /admin/groups/:id/agents, and the findMany of getGroupAgentNames: one
\* statement on the committed table
readMembers ==
    /\ Idle
    /\ \E groupId \in Range(GroupIds) :
            resp' = IF findGroupById(agentGroup, groupId) = {}
                    THEN Response("listGroupAgents", "NotFound", [groupId |-> groupId],
                                  <<>>, 0)
                    ELSE Response("listGroupAgents", "ok", [groupId |-> groupId],
                                  listGroupAgents(agentGroupItem, groupId), 0)
    /\ UNCHANGED <<store, now, aux>>

NextReplace ==
    \/ createGroupQuiet
    \/ addAgentsQuiet
    \/ replaceStart
    \/ replaceDelete
    \/ replaceCreate
    \/ replaceCommit
    \/ replaceReturn
    \/ readMembers
    \/ reply

SpecReplace == Init /\ [][NextReplace]_vars

(***************************************************************************)
(* SpecMirrorRace: Selection Mirror adds for one user, split at their      *)
(* store round trips: the read of the list and the write of the new one    *)
(***************************************************************************)
\* addAgents(userId, agentsToAdd) is entered: validateAndNormalize
mirrorAddStart(c) ==
    /\ req[c].pc = "idle"
    /\ \E agentsToAdd \in {<<"JIM">>, <<" alex ">>, <<"jim", "ALEX">>, <<"BOB">>} :
            LET add == validateAndNormalize(agentsToAdd)
            IN  req' = [req EXCEPT ![c] =
                          [pc |-> IF add.ok THEN "validated" ELSE "done",
                           status |-> IF add.ok THEN "ok" ELSE "BadRequest",
                           userId |-> "u1", add |-> add.out, current |-> <<>>]]
    /\ UNCHANGED <<store, now, resp, prev, cx, selectedAgents>>

\* const current = await this.getSelectedAgents(userId)
mirrorAddRead(c) ==
    /\ req[c].pc = "validated"
    /\ req' = [req EXCEPT ![c].pc = "read",
                          ![c].current = selectedAgents[req[c].userId]]
    /\ UNCHANGED <<store, now, resp, prev, cx, selectedAgents>>

\* await this.prisma.user.update({ data: { selectedAgents: { set } } })
mirrorAddWrite(c) ==
    /\ req[c].pc = "read"
    /\ selectedAgents' = [selectedAgents EXCEPT ![req[c].userId] =
                             dedupe(req[c].current \o req[c].add)]
    /\ req' = [req EXCEPT ![c].pc = "done"]
    /\ UNCHANGED <<store, now, resp, prev, cx>>

\* the caller has its answer
mirrorAddReply(c) ==
    /\ req[c].pc = "done"
    /\ req' = [req EXCEPT ![c] = NoRequest]
    /\ UNCHANGED <<store, now, resp, prev, cx, selectedAgents>>

\* clearAgents(userId), while no add is in flight
mirrorClearQuiet ==
    /\ \A c \in Clients : req[c].pc = "idle"
    /\ selectedAgents["u1"] # <<>>
    /\ selectedAgents' = [selectedAgents EXCEPT !["u1"] = <<>>]
    /\ UNCHANGED <<store, now, resp, prev, req, cx>>

addStart == \E c \in Clients : mirrorAddStart(c)

addRead == \E c \in Clients : mirrorAddRead(c)

addWrite == \E c \in Clients : mirrorAddWrite(c)

addReply == \E c \in Clients : mirrorAddReply(c)

NextMirrorRace == addStart \/ addRead \/ addWrite \/ addReply \/ mirrorClearQuiet

SpecMirrorRace == Init /\ [][NextMirrorRace]_vars

(***************************************************************************)
(* Properties                                                              *)
(***************************************************************************)

RowFields == {"id", "userId", "agentName", "startsAt", "expiresAt", "durationDays", "isActive"}

\* the row at position i differs between t and u at most in the fields `changed`
SameExcept(t, u, i, changed) ==
    /\ Len(u) = Len(t)
    /\ \A j \in 1..Len(t) : j # i => u[j] = t[j]
    /\ \A f \in RowFields \ changed : u[i][f] = t[i][f]

\* a step in which the handler `op` ran
Handled(op) == resp.op = "none" /\ resp'.op = op

Qualifies(r, userId, clock) ==
    r.userId = userId /\ r.isActive /\ (r.expiresAt = Null \/ r.expiresAt > clock)

\* C5: Get-selected(user) at time `at` returns exactly the agent names of the
\* user's rows with isActive = true and expiresAt null or later than `at`, one
\* entry per such row: inactive rows and rows with expiresAt <= at are
\* left out, whatever the creation order.
GetSelectedExact_C5 ==
    (resp.op = "getSelected" /\ resp.status = "ok") =>
        LET userId == UserIdOf(trim(resp.args.email))
            rows == Range(assignedAgent)
        IN  /\ Range(resp.ret) =
                   {r.agentName : r \in {q \in rows : Qualifies(q, userId, resp.at)}}
            /\ Len(resp.ret) = Cardinality({q \in rows : Qualifies(q, userId, resp.at)})

\* C5 witness: a read that returned an older row's agent and left out a newer,
\* active row of the same user that had expired.
GetSelectedExact_C5_Witness ==
    /\ resp.op = "getSelected"
    /\ resp.status = "ok"
    /\ \E r, q \in Range(assignedAgent) :
           /\ r.userId = UserIdOf(trim(resp.args.email))
           /\ q.userId = r.userId
           /\ q.id > r.id
           /\ q.isActive /\ q.expiresAt # Null /\ q.expiresAt <= resp.at
           /\ resp.ret = <<r.agentName>>

\* C6: expiry is evaluated at read time only.  Whenever Get-selected runs at
\* or after the expiresAt of an active row it leaves that row's agent out,
\* whenever List(activeOnly = true) runs it returns every active row of the
\* user, expired or not, and a row's isActive turns false only in a
\* successful Deactivate or in an assign that carries isActive = false: never
\* when time passes or in a read.
ExpiryAtReadTime_C6 ==
    /\ [](
          /\ (resp.op = "getSelected" /\ resp.status = "ok") =>
                \A r \in Range(assignedAgent) :
                    (/\ r.userId = UserIdOf(trim(resp.args.email))
                     /\ r.isActive /\ r.expiresAt # Null /\ r.expiresAt <= now)
                    => r.agentName \notin Range(resp.ret)
          /\ (resp.op = "list" /\ resp.status = "ok" /\ resp.args.activeOnly) =>
                \A r \in Range(assignedAgent) :
                    (r.userId = UserIdOf(trim(resp.args.email)) /\ r.isActive)
                    => r \in Range(resp.ret))
    /\ [][\A i \in 1..Len(assignedAgent) :
              (assignedAgent[i].isActive /\ ~assignedAgent'[i].isActive)
              => \/ Handled("deactivate") /\ resp'.status = "ok"
                 \/ Handled("assign") /\ resp'.args.opts.isActive = "false"]_vars

\* C6 witness: an agent assigned for one day, the clock past the end of that
\* day, the row still active and returned by List(activeOnly = true).
ExpiryAtReadTime_C6_Witness ==
    /\ resp.op = "list" /\ resp.status = "ok" /\ resp.args.activeOnly
    /\ \E r \in Range(resp.ret) :
           /\ r.durationDays = 1
           /\ r.expiresAt = r.startsAt + DayTicks
           /\ now > r.expiresAt
           /\ r.isActive
           /\ r \in Range(assignedAgent)

ActiveFor(rows, userId, agentName) ==
    {i \in 1..Len(rows) :
        rows[i].userId = userId /\ rows[i].agentName = agentName /\ rows[i].isActive}

\* C9: Deactivate(user, agent) fails with NotFound and leaves the table as it
\* was when the pair has no active row; otherwise it succeeds, the table keeps
\* its length, one active row of the pair has isActive = false afterwards and
\* no other field and no other row differs.
DeactivateFrame_C9 ==
    [][Handled("deactivate") =>
        LET userId == getUserByEmail(trim(resp'.args.email))
            act == ActiveFor(assignedAgent, userId, resp'.args.agentName)
        IN  IF act = {}
            THEN resp'.status = "NotFound" /\ assignedAgent' = assignedAgent
            ELSE /\ resp'.status = "ok"
                 /\ \E i \in act :
                        /\ SameExcept(assignedAgent, assignedAgent', i, {"isActive"})
                        /\ ~assignedAgent'[i].isActive]_vars

\* C9 witness: Deactivate answered NotFound for a pair whose only rows are
\* inactive (an earlier Deactivate went through and kept the row).
DeactivateFrame_C9_Witness ==
    /\ resp.op = "deactivate"
    /\ resp.status = "NotFound"
    /\ \E r \in Range(assignedAgent) :
           /\ r.userId = getUserByEmail(trim(resp.args.email))
           /\ r.agentName = resp.args.agentName
           /\ ~r.isActive

RowsFor(rows, userId, agentName) ==
    {i \in 1..Len(rows) : rows[i].userId = userId /\ rows[i].agentName = agentName}

\* the second of two successful assigns in a row with the same arguments
SameAgain ==
    /\ Handled("assign")
    /\ resp'.status = "ok"
    /\ prev.op = "assign"
    /\ prev.status = "ok"
    /\ prev.args = resp'.args

\* C7 as claimed: the second of two identical assigns in a row creates no row.
AssignTwiceOneRow_C7_Claimed ==
    [][SameAgain => Len(assignedAgent') = Len(assignedAgent)]_vars

\* C7, amended: when the arguments do not set isActive = false, the second of
\* two identical assigns in a row creates no row and updates the pair's one
\* active row, which the first call created or updated.
AssignTwiceOneRow_C7 ==
    [][(SameAgain /\ resp'.args.opts.isActive # "false") =>
        LET act == ActiveFor(assignedAgent, "u1", resp'.args.agentName)
        IN  /\ Len(assignedAgent') = Len(assignedAgent)
            /\ Cardinality(act) = 1
            /\ \A j \in 1..Len(assignedAgent) :
                   j \notin act => assignedAgent'[j] = assignedAgent[j]]_vars

\* C7 witness: the second identical assign has run and the pair has one row.
AssignTwiceOneRow_C7_Witness ==
    /\ resp.op = "assign" /\ resp.status = "ok"
    /\ prev.op = "assign" /\ prev.status = "ok" /\ prev.args = resp.args
    /\ resp.args.opts.isActive # "false"
    /\ Cardinality(RowsFor(assignedAgent, "u1", resp.args.agentName)) = 1

\* C8: an assign that finds an active row for (user, agent) creates no row and
\* changes that row only: startsAt, durationDays and isActive take the
\* supplied value and keep the stored one when absent; expiresAt becomes null
\* when null is supplied, the supplied date when a date is, (supplied startsAt
\* or now) + durationDays days when only a positive durationDays is, and
\* keeps the stored value otherwise.
AssignPatchFrame_C8 ==
    [][(Handled("assign") /\ resp'.status = "ok"
        /\ ActiveFor(assignedAgent, "u1", resp'.args.agentName) # {}) =>
        LET o == resp'.args.opts
        IN  \E i \in ActiveFor(assignedAgent, "u1", resp'.args.agentName) :
                LET old == assignedAgent[i]
                    new == assignedAgent'[i]
                IN  /\ SameExcept(assignedAgent, assignedAgent', i,
                                  {"startsAt", "expiresAt", "durationDays", "isActive"})
                    /\ new.startsAt = IF o.startsAt = Undefined THEN old.startsAt
                                      ELSE o.startsAt
                    /\ new.durationDays = IF o.durationDays = Undefined
                                          THEN old.durationDays ELSE o.durationDays
                    /\ new.isActive = IF o.isActive = "undefined" THEN old.isActive
                                      ELSE (o.isActive = "true")
                    /\ new.expiresAt =
                         IF o.expiresAt = Null THEN Null
                         ELSE IF o.expiresAt # Undefined THEN o.expiresAt
                         ELSE IF o.durationDays # Undefined /\ o.durationDays > 0
                         THEN (IF o.startsAt = Undefined THEN now ELSE o.startsAt)
                              + o.durationDays * DayTicks
                         ELSE old.expiresAt]_vars

\* C8 witness: an assign with expiresAt = null and nothing else has cleared
\* the expiry of the only row, which keeps the startsAt and durationDays an
\* earlier assign stored.
AssignPatchFrame_C8_Witness ==
    /\ resp.op = "assign" /\ resp.status = "ok"
    /\ resp.args.opts = [NoOpts EXCEPT !.expiresAt = Null]
    /\ Len(assignedAgent) = 1
    /\ assignedAgent[1].startsAt = 1
    /\ assignedAgent[1].durationDays = 1
    /\ assignedAgent[1].expiresAt = Null
    /\ assignedAgent[1].isActive

\* the instant a supplied Date or ISO string stands for
Instant(v) == IF v >= StringTag THEN v - StringTag ELSE v

\* C4: expiry resolution.  The resolved startsAt is the supplied one (absent
\* when absent).  A supplied expiresAt, null included, is the resolved
\* expiresAt whatever durationDays is; otherwise a durationDays > 0 gives
\* (supplied startsAt, or the current time) + durationDays days; otherwise
\* expiresAt is unresolved.
ComputeExpiry_C4 ==
    cx.done =>
        /\ cx.out.startsAt =
              IF cx.startsAt = Undefined THEN Undefined ELSE Instant(cx.startsAt)
        /\ cx.out.expiresAt =
              IF cx.expiresAt = Null THEN Null
              ELSE IF cx.expiresAt # Undefined THEN Instant(cx.expiresAt)
              ELSE IF cx.durationDays \notin {Undefined, Null} /\ cx.durationDays > 0
              THEN (IF cx.startsAt = Undefined THEN now ELSE Instant(cx.startsAt))
                   + cx.durationDays * DayTicks
              ELSE Undefined

\* C4 witness: expiresAt = null was supplied together with durationDays = 2
\* and the resolved expiresAt is null.
ComputeExpiry_C4_Witness ==
    /\ cx.done
    /\ cx.expiresAt = Null
    /\ cx.durationDays = 2
    /\ cx.out.expiresAt = Null

\* C3: when two overlapping assigns of the same (user, agent) have both looked
\* up the active row and found none, both issue their create: once both have
\* written, the pair has two rows with isActive = true.
RaceTwoActive_C3 ==
    \A c, d \in Clients :
        (/\ c # d
         /\ req[c].pc = "done" /\ req[d].pc = "done"
         /\ req[c].was = "create" /\ req[d].was = "create"
         /\ req[c].p.agentName = req[d].p.agentName)
        => Cardinality(ActiveFor(assignedAgent, req[c].p.userId, req[c].p.agentName)) >= 2

\* C3 witness: two rows with isActive = true for the same (user, agent).
RaceTwoActive_C3_Witness ==
    \E i, j \in 1..Len(assignedAgent) :
        /\ i # j
        /\ assignedAgent[i].userId = assignedAgent[j].userId
        /\ assignedAgent[i].agentName = assignedAgent[j].agentName
        /\ assignedAgent[i].isActive /\ assignedAgent[j].isActive

\* C1: in every state reached by single-assign, bulk-assign, assign-group,
\* assign-multiple-groups and deactivate calls run one after the other from
\* the empty store, each (user, agent) pair has at most one AssignedAgent row
\* with isActive = true.
AtMostOneActiveDirect_C1 ==
    \A email \in UserEmails, agentName \in AgentNames :
        Cardinality(ActiveFor(assignedAgent, UserIdOf(email), agentName)) <= 1

\* C1 witness: an assign-multiple-groups call has succeeded and left a pair
\* with two rows, one of them active.
AtMostOneActiveDirect_C1_Witness ==
    /\ resp.op = "assignGroups" /\ resp.status = "ok"
    /\ \E agentName \in AgentNames :
          /\ Cardinality(RowsFor(assignedAgent, "u1", agentName)) = 2
          /\ Cardinality(ActiveFor(assignedAgent, "u1", agentName)) = 1

BulkAllOrNothing_C10 ==
    [][Handled("assignBulk") =>
        /\ resp'.status # "ok" => assignedAgent' = assignedAgent
        /\ resp'.status = "ok" =>
              \A agentName \in Range(resp'.args.agentNames) :
                  \E i \in 1..Len(assignedAgent') :
                      /\ assignedAgent'[i].userId = getUserByEmail(trim(resp'.args.email))
                      /\ assignedAgent'[i].agentName = agentName
                      /\ assignedAgent'[i].isActive = (resp'.args.opts.isActive # "false")
                      /\ i <= Len(assignedAgent) => assignedAgent[i].isActive]_vars

\* C10 witness: the second statement of a bulk assign of JIM and ALEX has
\* failed and the table shows no row, the one upserted for JIM included.
BulkAllOrNothing_C10_Witness ==
    /\ resp.op = "assignBulk" /\ resp.status = "StoreError"
    /\ resp.args.agentNames = <<"JIM", "ALEX">>
    /\ resp.args.failAt = 2
    /\ assignedAgent = <<>>

(***************************************************************************)
(* Group assignment and materialization                                    *)
(***************************************************************************)
\* the agents with an AgentGroupItem of the group
Members(items, groupId) ==
    {items[i].agentName : i \in {j \in 1..Len(items) : items[j].groupId = groupId}}

\* the request in resp is an Assign-group that materializes: POST
\* /admin/assign/group, or POST /admin/group-assignments with alsoAssignAgents
Materializes(r) ==
    \/ r.op = "assignGroup"
    \/ r.op = "assignGroupToUser" /\ r.args.alsoAssignAgents

\* C11: after a successful Assign-group(user, group) whose isActive is not
\* false there is exactly one active AssignedGroup row for (user, group) and,
\* for every member of the group, exactly one active AssignedAgent row for
\* (user, agent).
AssignGroupMaterializes_C11 ==
    (/\ Materializes(resp)
     /\ resp.status = "ok"
     /\ resp.args.opts.isActive # "false") =>
        LET user == UserIdOf(trim(resp.args.email))
            groupId == resolveGroupId(agentGroup, resp.args.selector)
        IN  /\ Cardinality(findActiveGroupAssignment(assignedGroup, user, groupId)) = 1
            /\ \A a \in Members(agentGroupItem, groupId) :
                    Cardinality(ActiveFor(assignedAgent, user, a)) = 1

\* the group of two members has been assigned through the explicit API; the
\* pair has an older, inactive AssignedGroup row besides the active one
AssignGroupMaterializes_C11_Witness ==
    /\ resp.op = "assignGroupToUser"
    /\ resp.status = "ok"
    /\ resp.args.opts.isActive # "false"
    /\ resp.args.selector.groupId = "g2"
    /\ Members(agentGroupItem, "g2") = {"JIM", "ALEX"}
    /\ \E i \in 1..Len(assignedGroup) :
            /\ assignedGroup[i].userId = "u1"
            /\ assignedGroup[i].groupId = "g2"
            /\ ~assignedGroup[i].isActive

\* the union of the members of the groups the selectors resolve to
UnionOf(selectors) ==
    UNION {Members(agentGroupItem, resolveGroupId(agentGroup, selectors[k])) :
            k \in 1..Len(selectors)}

\* the AssignedAgent rows a materialization over the agents U touches: the
\* rows it creates and the active rows of (user, agent in U) it patches
Touched(before, after, userId, U) ==
    {i \in 1..Len(after) :
        \/ i > Len(before)
        \/ before[i].userId = userId /\ before[i].agentName \in U /\ before[i].isActive}

\* the rows touched are one per agent of U, and no other row changes
OneRowPerAgent(before, after, userId, U) ==
    LET touched == Touched(before, after, userId, U)
    IN  /\ Len(after) >= Len(before)
        /\ {after[i].agentName : i \in touched} = U
        /\ \A i \in touched : after[i].userId = userId
        /\ \A i, j \in touched : after[i].agentName = after[j].agentName => i = j
        /\ \A i \in 1..Len(before) : i \notin touched => after[i] = before[i]

DeactivateGroupNoCascade_C13 ==
    [][(Handled("deactivateGroup") \/ Handled("deactivateMy")) =>
        LET user == getUserByEmail(trim(resp'.args.email))
            groupId == resolveGroupId(agentGroup, resp'.args.selector)
        IN  /\ assignedAgent' = assignedAgent
            /\ \A u \in {UserIdOf(x) : x \in UserEmails} :
                    getSelectedAgents(assignedAgent', u, now')
                        = getSelectedAgents(assignedAgent, u, now)
            /\ IF resp'.status = "ok"
               THEN \E i \in findActiveGroupAssignment(assignedGroup, user, groupId) :
                        assignedGroup' = [assignedGroup EXCEPT ![i].isActive = FALSE]
               ELSE assignedGroup' = assignedGroup]_vars

\* the user has opted out of the group of two members after it was
\* materialized: both AssignedAgent rows are still active and selected
DeactivateGroupNoCascade_C13_Witness ==
    /\ resp.op = "deactivateMy"
    /\ resp.status = "ok"
    /\ resp.args.selector.groupId = "g2"
    /\ findActiveGroupAssignment(assignedGroup, "u1", "g2") = {}
    /\ Range(getSelectedAgents(assignedAgent, "u1", now)) = {"JIM", "ALEX"}

(***************************************************************************)
(* Assigning a group without members                                       *)
(***************************************************************************)
\* C15: assigning a group that has no members is rejected with a validation
\* error and leaves the store unchanged, on POST /admin/assign/group and on
\* POST /admin/group-assignments with alsoAssignAgents.
EmptyGroupRejected_C15 ==
    [][(/\ Handled("assignGroup") \/ Handled("assignGroupToUser")
        /\ Materializes(resp')
        /\ getUserByEmail(trim(resp'.args.email)) # "NotFound"
        /\ resolveGroupId(agentGroup, resp'.args.selector) \notin {"NotFound", "BadRequest"}
        /\ Members(agentGroupItem, resolveGroupId(agentGroup, resp'.args.selector)) = {}) =>
            /\ resp'.status = "BadRequest"
            /\ store' = store]_vars

(***************************************************************************)
(* Group membership                                                        *)
(***************************************************************************)
\* at most one AgentGroupItem per (group, agent)
NoDuplicateItems(items) == \A i, j \in 1..Len(items) : items[i] = items[j] => i = j

\* the items of the groups other than groupId, in order
ItemsElsewhere(items, groupId) == SelectSeq(items, LAMBDA it : it.groupId # groupId)

\* C17: after Replace-members(groupId, S) succeeds on an existing group the
\* members of the group are exactly the distinct agents of S, whatever they
\* were before, with one item per member; S = [] leaves no member; the
\* members of the other groups are unchanged.
ReplaceMembersExact_C17 ==
    [][(Handled("replaceAgents") /\ resp'.status = "ok") =>
        LET groupId == resp'.args.groupId
            S == Range(resp'.args.agentNames)
        IN  /\ findGroupById(agentGroup, groupId) # {}
            /\ Members(agentGroupItem', groupId) = S
            /\ NoDuplicateItems(agentGroupItem')
            /\ \A a \in S \cap Members(agentGroupItem, groupId) :
                    \E i \in 1..Len(agentGroupItem) :
                        /\ agentGroupItem[i] = [groupId |-> groupId, agentName |-> a]
                        /\ \E j \in 1..i : agentGroupItem'[j] = agentGroupItem[i]
            /\ ItemsElsewhere(agentGroupItem', groupId)
                    = ItemsElsewhere(agentGroupItem, groupId)]_vars

\* JIM and ALEX were added to g1, then the members were replaced by
\* [ALEX, ALEX]: JIM is gone, ALEX is there once, and g2 keeps its members
ReplaceMembersExact_C17_Witness ==
    /\ prev.op = "addAgents"
    /\ prev.status = "ok"
    /\ prev.args = [groupId |-> "g1", agentNames |-> <<"JIM", "ALEX">>]
    /\ resp.op = "replaceAgents"
    /\ resp.status = "ok"
    /\ resp.args.groupId = "g1"
    /\ resp.args.agentNames = <<"ALEX", "ALEX">>
    /\ Members(agentGroupItem, "g1") = {"ALEX"}
    /\ Members(agentGroupItem, "g2") = {"JIM", "ALEX"}

\* C19: PUT /admin/groups/:id/agents, called for an existing group with an
\* empty agentNames array, is accepted and leaves the group without members.
ReplaceEmptyAccepted_C19 ==
    [][(/\ replaceAgents
        /\ resp'.args.agentNames = <<>>
        /\ findGroupById(agentGroup, resp'.args.groupId) # {}) =>
            /\ resp'.status = "ok"
            /\ Members(agentGroupItem', resp'.args.groupId) = {}]_vars

\* C20: Add-members(groupId, A) on an existing group succeeds, whether or
\* not names of A repeat or are members already, and leaves the members old
\* union A with one item per (group, agent): a call whose names are all
\* members changes nothing, so calling it again ends in the same set. On a
\* missing group it fails with NotFound, and a call that fails inserts
\* nothing.
AddMembersIdempotent_C20 ==
    [][Handled("addAgents") =>
        LET groupId == resp'.args.groupId
            A == Range(resp'.args.agentNames)
            old == Members(agentGroupItem, groupId)
        IN  /\ AgentsArrayDto(resp'.args.agentNames) =>
                    resp'.status = IF findGroupById(agentGroup, groupId) = {}
                                   THEN "NotFound" ELSE "ok"
            /\ NoDuplicateItems(agentGroupItem')
            /\ IF resp'.status = "ok"
               THEN /\ Members(agentGroupItem', groupId) = old \cup A
                    /\ Len(agentGroupItem') = Len(agentGroupItem) + Cardinality(A \ old)
                    /\ SubSeq(agentGroupItem', 1, Len(agentGroupItem)) = agentGroupItem
               ELSE agentGroupItem' = agentGroupItem]_vars

\* [ALEX, ALEX] has been added to g1 twice in a row: one item for ALEX
AddMembersIdempotent_C20_Witness ==
    /\ prev.op = "addAgents"
    /\ prev.status = "ok"
    /\ prev.args = [groupId |-> "g1", agentNames |-> <<"ALEX", "ALEX">>]
    /\ resp.op = "addAgents"
    /\ resp.status = "ok"
    /\ resp.args = prev.args
    /\ Members(agentGroupItem, "g1") = {"JIM", "ALEX"}
    /\ Len(SelectSeq(agentGroupItem, LAMBDA it : it.groupId = "g1")) = 2

(***************************************************************************)
(* Re-running Assign-group                                                 *)
(***************************************************************************)
\* C14: Assign-group never revokes materialized access: an AssignedAgent row
\* whose agent is not (or no longer) a member of the group keeps all its
\* fields, active ones stay active; only rows of current members are
\* refreshed or created.
StaleAccessKept_C14 ==
    [][Handled("assignGroup") =>
        LET user == getUserByEmail(trim(resp'.args.email))
            M == Members(agentGroupItem, resolveGroupId(agentGroup, resp'.args.selector))
        IN  /\ Len(assignedAgent') >= Len(assignedAgent)
            /\ \A i \in 1..Len(assignedAgent) :
                    (assignedAgent[i].userId # user \/ assignedAgent[i].agentName \notin M)
                        => assignedAgent'[i] = assignedAgent[i]
            /\ \A i \in (Len(assignedAgent) + 1)..Len(assignedAgent') :
                    assignedAgent'[i].userId = user /\ assignedAgent'[i].agentName \in M]_vars

\* ALEX was removed from the group of JIM and ALEX after it had been
\* assigned, and the group was assigned again with a duration: the row for
\* JIM carries the duration, the row for ALEX is active and as it was
StaleAccessKept_C14_Witness ==
    /\ resp.op = "assignGroup"
    /\ resp.status = "ok"
    /\ resp.args.selector.groupId = "g2"
    /\ resp.args.opts.durationDays = 1
    /\ Members(agentGroupItem, "g2") = {"JIM"}
    /\ \E i \in ActiveFor(assignedAgent, "u1", "JIM") : assignedAgent[i].durationDays = 1
    /\ \E i \in ActiveFor(assignedAgent, "u1", "ALEX") : assignedAgent[i].durationDays # 1

\* the AssignedGroup rows of (user, group)
GroupRowsFor(rows, userId, groupId) ==
    {i \in 1..Len(rows) : rows[i].userId = userId /\ rows[i].groupId = groupId}

\* the request before the last was this Assign-group, and its
\* materialization failed
Rerun == prev.op = "assignGroup" /\ prev.status = "StoreError" /\ resp'.args = prev.args

ReplaceAtomic_C18 ==
    LET w == req[1]
    IN  /\ (/\ w.pc \in {"began", "deleted", "created", "committed", "rolledBack"}
             /\ resp.op = "listGroupAgents"
             /\ resp.status = "ok"
             /\ resp.args.groupId = w.groupId) =>
                Range(resp.ret) \in {Members(w.before, w.groupId), Range(w.next)}
        /\ w.pc \in {"began", "deleted", "created", "rolledBack"} =>
                agentGroupItem = w.before
        /\ w.pc = "committed" =>
                /\ Members(agentGroupItem, w.groupId) = Range(w.next)
                /\ NoDuplicateItems(agentGroupItem)

\* the members [JIM] of g1 are being replaced by [ALEX]: the delete has run,
\* the insert has not, the transaction sees no member, and a reader has
\* been answered [JIM]
ReplaceAtomic_C18_Witness ==
    /\ req[1].pc = "deleted"
    /\ req[1].groupId = "g1"
    /\ req[1].next = <<"ALEX">>
    /\ Members(req[1].before, "g1") = {"JIM"}
    /\ Members(req[1].tx, "g1") = {}
    /\ resp.op = "listGroupAgents"
    /\ resp.args.groupId = "g1"
    /\ resp.ret = <<"JIM">>

(***************************************************************************)
(* Group names                                                             *)
(***************************************************************************)
NamesUnique(groups) ==
    \A i, j \in 1..Len(groups) : groups[i].name = groups[j].name => i = j

\* the request r, met by the table `groups`, would give a group the name of
\* another group
Collides(groups, r) ==
    \/ /\ r.op \in {"createGroup", "createGroupWithAgents"}
       /\ nameTaken(groups, trim(r.args.name), 0) # {}
    \/ /\ r.op = "updateGroup"
       /\ r.args.name # ""
       /\ \E i \in findGroupById(groups, r.args.id) :
              nameTaken(groups, trim(r.args.name), i) # {}

\* C21: no two groups have the same name; a Create, Create-with-members or
\* Update that passes validation and would give a group the name of another
\* group ends with Conflict, and a request that ends with Conflict leaves
\* the four tables as they were.
GroupNamesUnique_C21 ==
    [][/\ NamesUnique(agentGroup')
       /\ (/\ Idle
           /\ resp'.op \in {"createGroup", "createGroupWithAgents", "updateGroup"}
           /\ resp'.status # "BadRequest"
           /\ Collides(agentGroup, resp')) => resp'.status = "Conflict"
       /\ (Idle /\ resp'.status = "Conflict") => store' = store]_vars

\* G2 could not be renamed to the name of G1, and a Create-with-members
\* before it could not take that name either
GroupNamesUnique_C21_Witness ==
    /\ resp.op = "updateGroup"
    /\ resp.status = "Conflict"
    /\ resp.args.name = " G1 "
    /\ prev.op = "createGroupWithAgents"
    /\ prev.status = "Conflict"
    /\ Len(agentGroup) = 2
    /\ agentGroupItem = <<>>

\* C22: POST /admin/groups with a name that is empty after trimming is
\* refused with a validation error and no stored group has an empty name.
EmptyNameRejected_C22 ==
    /\ (resp.op = "createGroup" /\ trim(resp.args.name) = "") =>
            resp.status = "BadRequest"
    /\ \A i \in 1..Len(agentGroup) : agentGroup[i].name # ""

(***************************************************************************)
(* Extend-by-days                                                          *)
(***************************************************************************)
\* the newest AssignedGroup row of (userId, groupId)
LatestRow(rows, userId, groupId) ==
    {i \in 1..Len(rows) :
        /\ rows[i].userId = userId /\ rows[i].groupId = groupId
        /\ \A j \in 1..Len(rows) :
              rows[j].userId = userId /\ rows[j].groupId = groupId => rows[j].id <= rows[i].id}

\* C23: Extend-by-days with an integer addDays, |addDays| <= 3650, sets the
\* expiresAt of the user's newest GroupAssignment row for the group to the
\* stored expiresAt (the current time when it is null) plus addDays days and
\* changes nothing else; with a non-integer addDays or |addDays| > 3650 it
\* fails with a validation error and the store is unchanged; with no row
\* for (user, group) it fails with NotFound.
ExtendByDays_C23 ==
    [][(Idle /\ resp'.op = "extendMy" /\ hasSelector(resp'.args.selector)) =>
        LET a == resp'.args
            userId == UserIdOf(a.email)
            groupId == resolveGroupId(agentGroup, a.selector)
            hit == LatestRow(assignedGroup, userId, groupId)
            valid == /\ a.addDays \notin {Fraction}
                     /\ a.addDays >= -3650
                     /\ a.addDays <= 3650
        IN  IF ~valid
            THEN resp'.status = "BadRequest" /\ store' = store
            ELSE IF hit = {}
            THEN resp'.status = "NotFound" /\ store' = store
            ELSE /\ resp'.status = "ok"
                 /\ \E i \in hit :
                        assignedGroup' =
                            [assignedGroup EXCEPT ![i].expiresAt =
                                (IF assignedGroup[i].expiresAt = Null THEN now
                                 ELSE assignedGroup[i].expiresAt) + a.addDays * DayTicks]
                 /\ UNCHANGED <<assignedAgent, agentGroup, agentGroupItem>>]_vars

\* an assignment that expired at 1 has been reduced by a day at time 2, next
\* to an older, deactivated row of the same pair
ExtendByDays_C23_Witness ==
    /\ resp.op = "extendMy"
    /\ resp.status = "ok"
    /\ resp.args.addDays = -1
    /\ now = 2
    /\ Len(assignedGroup) = 2
    /\ assignedGroup[1].groupId = assignedGroup[2].groupId
    /\ ~assignedGroup[1].isActive
    /\ assignedGroup[2].expiresAt = 0

(***************************************************************************)
(* Selection Mirror                                                        *)
(***************************************************************************)
NoRepeat(list) == \A i, j \in 1..Len(list) : list[i] = list[j] => i = j

IsPrefix(old, new) ==
    /\ Len(old) <= Len(new)
    /\ \A k \in 1..Len(old) : new[k] = old[k]

\* the names of a request, as the catalog spells them
Normalized(agents) == {normalizeName(agents[k]) : k \in 1..Len(agents)}

\* C24: no selected-agents list names an agent twice; an add, and a toggle
\* of an agent that is not selected, keep the entries of the list in their
\* order and append the new names after them.
SelectionDeduplicated_C24 ==
    [][/\ \A u \in DOMAIN selectedAgents' : NoRepeat(selectedAgents'[u])
       /\ (/\ Idle
           /\ resp'.status = "ok"
           /\ \/ resp'.op = "add"
              \/ /\ resp'.op = "toggle"
                 /\ Normalized(resp'.args.agents) \cap
                        Range(selectedAgents[resolveUser(resp'.args.selector)]) = {}) =>
            LET u == resolveUser(resp'.args.selector)
            IN  /\ IsPrefix(selectedAgents[u], selectedAgents'[u])
                /\ Range(selectedAgents'[u]) =
                       Range(selectedAgents[u]) \cup Normalized(resp'.args.agents)
                /\ \A w \in DOMAIN selectedAgents : w # u =>
                       selectedAgents'[w] = selectedAgents[w]]_vars

\* ALEX, then JIM, were added to a list that already held JIM
SelectionDeduplicated_C24_Witness ==
    /\ resp.op = "add"
    /\ resp.status = "ok"
    /\ resp.args.agents = <<"ALEX", "jim">>
    /\ selectedAgents["u1"] = <<"JIM", "ALEX">>

\* the operations of the Selection Mirror
MirrorOps == {"set", "add", "remove", "toggle", "clear", "get"}

\* C25: a Selection Mirror operation leaves the four entitlement tables as
\* they were, and an operation of the assignment engines or of the group
\* store leaves every selected-agents list as it was.
MirrorIndependent_C25 ==
    [][Idle =>
        /\ resp'.op \in MirrorOps => store' = store
        /\ resp'.op \notin MirrorOps => selectedAgents' = selectedAgents]_vars

\* the mirror answers [ALEX] for a user whose entitlement is JIM alone
MirrorIndependent_C25_Witness ==
    /\ resp.op = "get"
    /\ resp.status = "ok"
    /\ resp.ret = <<"ALEX">>
    /\ getSelectedAgents(assignedAgent, "u1", now) = <<"JIM">>
    /\ \E i \in 1..Len(assignedGroup) : assignedGroup[i].userId = "u1"

\* C30: when two adds for the same user have both completed, the stored
\* list holds the names of both.
ConcurrentAddsKept_C30 ==
    (/\ req[1].pc = "done" /\ req[1].status = "ok"
     /\ req[2].pc = "done" /\ req[2].status = "ok") =>
        Range(req[1].add) \cup Range(req[2].add) \subseteq Range(selectedAgents["u1"])

(***************************************************************************)
(* Partial application                                                     *)
(***************************************************************************)
\* the AssignedGroup rows of the groups that have members
RowsOfFilledGroups(rows) ==
    SelectSeq(rows, LAMBDA row : Members(agentGroupItem, row.groupId) # {})

\* C27: an Assign-multiple-groups that fails on a selector that does not
\* resolve, or on a group without members, leaves the AssignedGroup rows of
\* the selectors before it (the whole table when a selector does not
\* resolve, the rows of the groups with members when a group has none) and
\* AssignedAgent as they were.
AssignGroupsAllOrNothing_C27 ==
    [][(Idle /\ resp'.op = "assignGroups") =>
        /\ resp'.status = "NotFound" =>
                assignedGroup' = assignedGroup /\ assignedAgent' = assignedAgent
        /\ resp'.status = "BadRequest" =>
                /\ RowsOfFilledGroups(assignedGroup') = RowsOfFilledGroups(assignedGroup)
                /\ assignedAgent' = assignedAgent]_vars

\* C28: Create-group-with-agents-and-assign with a well-formed email that
\* matches no user fails with NotFound and leaves the four tables as they
\* were.
UnknownUserCreatesNothing_C28 ==
    [][(/\ Idle
        /\ resp'.op = "createGroupAndAssign"
        /\ IsEmail(resp'.args.email)
        /\ getUserByEmail(resp'.args.email) = "NotFound") =>
            /\ resp'.status \in {"NotFound", "BadRequest", "Conflict"}
            /\ store' = store]_vars

(***************************************************************************)
(* Deactivation and the audit trail                                        *)
(***************************************************************************)
\* C29: Deactivate-group succeeds whenever the user has an active
\* GroupAssignment row for the group, also next to an older deactivated row
\* of the same pair, and leaves no active row for the pair.
DeactivateGroupAgain_C29 ==
    [][(/\ Idle
        /\ resp'.op = "deactivateGroup"
        /\ hasSelector(resp'.args.selector)
        /\ findActiveGroupAssignment(
               assignedGroup, UserIdOf(resp'.args.email),
               resolveGroupId(agentGroup, resp'.args.selector)) # {}) =>
            /\ resp'.status = "ok"
            /\ Len(assignedGroup') = Len(assignedGroup)
            /\ findActiveGroupAssignment(
                   assignedGroup', UserIdOf(resp'.args.email),
                   resolveGroupId(agentGroup, resp'.args.selector)) = {}]_vars

(***************************************************************************)
(* Error kinds                                                             *)
(***************************************************************************)
\* the kinds of failure an entitlement operation may end with
ErrorKinds == {"BadRequest", "NotFound", "Conflict", "Internal", "Unavailable"}

\* C26: an operation of AdminService ends well or with one of the kinds
\* Validation, NotFound, Conflict, Internal, Unavailable; never with the
\* error the store threw.
StoreErrorsTranslated_C26 == resp.status \in {"ok"} \cup ErrorKinds

====
